---- MODULE Spec2Model ----
(***************************************************************************)
(* Model of the AstroGuard impact-physics and deflection-physics engine    *)
(* (src/backend/physics.py) together with a caller that invokes its        *)
(* public functions one call at a time.                                    *)
(*                                                                         *)
(* Python floats are modelled as sign + base-2 logarithm in fixed point    *)
(* with FracBits fractional bits: a non-zero real x is the record          *)
(* [s |-> sign(x), l |-> log2(|x|) * 2^FracBits].  Products, quotients and *)
(* powers are exact on the logarithm up to one unit in the last place;     *)
(* sums go through Exp2Q / Lg2.  All integers stay below 2^31.             *)
(***************************************************************************)
EXTENDS Integers, Sequences, FiniteSets, TLC

(***************************************************************************)
(* Fixed-point arithmetic standing for Python's float operators and the    *)
(* math module.                                                            *)
(***************************************************************************)
FracBits == 20

One == 2^FracBits

\* intermediate results carry GuardBits more fractional bits than One
GuardBits == 4

WideBits == FracBits + GuardBits

Wide == 2^WideBits

HalfW == 2^(WideBits \div 2)

Max(a, b) == IF a >= b THEN a ELSE b

Min(a, b) == IF a <= b THEN a ELSE b

\* floor(a * b / Wide) for 0 <= a, b < 2^26, computed without exceeding 2^31
MulQ(a, b) ==
  LET ah == a \div HalfW
      al == a % HalfW
      bh == b \div HalfW
      bl == b % HalfW
  IN  ah * bh + ((ah * bl + al * bh + ((al * bl) \div HalfW)) \div HalfW)

\* floor(x * num / den) for any integer x, without forming x * num
ScaleQ(x, num, den) == (x \div den) * num + (((x % den) * num) \div den)

\* x / 2^GuardBits rounded to the nearest integer
Narrow(x) == (x + 2^(GuardBits - 1)) \div 2^GuardBits

RECURSIVE FloorLog2(_)
FloorLog2(n) == IF n < 2 THEN 0 ELSE 1 + FloorLog2(n \div 2)

RECURSIVE LgFrac(_, _, _)
\* one bit of the logarithm from the square sq of the mantissa
LgBit(sq, i, acc) ==
  IF sq >= 2 * Wide THEN LgFrac(sq \div 2, i - 1, 2 * acc + 1)
                    ELSE LgFrac(sq, i - 1, 2 * acc)

LgFrac(m, i, acc) == IF i = 0 THEN acc ELSE LgBit(MulQ(m, m), i, acc)

\* log2(n) * One for n with floor(log2(n)) = k
LgNormal(n, k) ==
  k * One
  + Narrow(LgFrac(IF k <= WideBits THEN n * 2^(WideBits - k) ELSE n \div 2^(k - WideBits),
                  WideBits, 0))

\* log2(n) * One for an integer n >= 1, computed bit by bit
Lg2(n) == LgNormal(n, FloorLog2(n))

\* Lg2 of the integers up to LgTableSize, evaluated once
LgTableSize == 10000

LgTable == [n \in 1..LgTableSize |-> Lg2(n)]

Lg(n) == IF n <= LgTableSize THEN LgTable[n] ELSE Lg2(n)

\* ln(2) * Wide
Ln2Q == 11629080

ExpTerms == 12

RECURSIVE ExpSeries(_, _, _, _)
\* the series continued with its term t of order k
ExpTerm(x, k, t, acc) == ExpSeries(x, k + 1, t, acc + t)

ExpSeries(x, k, term, acc) ==
  IF k > ExpTerms THEN acc ELSE ExpTerm(x, k, MulQ(term, x) \div k, acc)

\* 2^(f / One) * One for 0 <= f < One; the result is in One .. 2 * One
Exp2Q(f) == Narrow(ExpSeries(MulQ(f * 2^GuardBits, Ln2Q), 1, Wide, Wide))

\* floor(mant * 2^i / One)
FloorMant(i, mant) ==
  IF i < 0 THEN 0
  ELSE IF i >= FracBits THEN mant * 2^(i - FracBits)
  ELSE mant \div 2^(FracBits - i)

\* floor(2^(lg / One)), the integer part of the real with logarithm lg
FloorExp(lg) == FloorMant(lg \div One, Exp2Q(lg % One))

\* q + r / (2 * half) rounded to the nearest integer, ties to even
RoundHalfEven(q, r, half) == IF r > half \/ (r = half /\ q % 2 = 1) THEN q + 1 ELSE q

\* mant * 2^i / One rounded to the nearest integer
RoundMant(i, mant) ==
  IF i < -1 THEN 0
  ELSE IF i >= FracBits THEN mant * 2^(i - FracBits)
  ELSE RoundHalfEven(mant \div 2^(FracBits - i), mant % 2^(FracBits - i),
                     2^(FracBits - i - 1))

\* the integer nearest to 2^(lg / One), ties to even as Python's round()
RoundExp(lg) == RoundMant(lg \div One, Exp2Q(lg % One))

(***************************************************************************)
(* Reals: Zero, or [s |-> 1 or -1, l |-> log2 of the magnitude * One].     *)
(***************************************************************************)
Zero == [s |-> 0, l |-> 0]

Sign(n) == IF n > 0 THEN 1 ELSE IF n < 0 THEN -1 ELSE 0

Abs(n) == IF n < 0 THEN -n ELSE n

\* the integer n as a real
RInt(n) == IF n = 0 THEN Zero ELSE [s |-> Sign(n), l |-> Lg(Abs(n))]

\* the rational n / d, d > 0
RQ(n, d) == IF n = 0 THEN Zero ELSE [s |-> Sign(n), l |-> Lg(Abs(n)) - Lg(d)]

\* the literal m * 10^e (4.184e15 is RSci(4184, 12))
RSci(m, e) == IF m = 0 THEN Zero ELSE [s |-> Sign(m), l |-> Lg(Abs(m)) + e * Lg(10)]

RNeg(a) == [s |-> -a.s, l |-> a.l]

RAbs(a) == [s |-> a.s * a.s, l |-> a.l]

RMul(a, b) == IF a.s = 0 \/ b.s = 0 THEN Zero ELSE [s |-> a.s * b.s, l |-> a.l + b.l]

\* a / b for b # 0 (Python raises ZeroDivisionError otherwise; callers test b.s first)
RDiv(a, b) == IF a.s = 0 THEN Zero ELSE [s |-> a.s * b.s, l |-> a.l - b.l]

\* a ** (num / den) for a >= 0
RPow(a, num, den) == IF a.s = 0 THEN Zero ELSE [s |-> 1, l |-> ScaleQ(a.l, num, den)]

RLt(a, b) ==
  IF a.s # b.s THEN a.s < b.s
  ELSE IF a.s = 0 THEN FALSE
  ELSE IF a.s = 1 THEN a.l < b.l
  ELSE a.l > b.l

RLe(a, b) == ~RLt(b, a)

RMax(a, b) == IF RLt(a, b) THEN b ELSE a

\* 2^(-d / One) * One for d >= 0
RatioQ(d) == Exp2Q((-d) % One) \div 2^(-((-d) \div One))

\* log of x + y from hl = log x >= ll = log y
AddMag(hl, ll) ==
  IF hl - ll >= (FracBits + 1) * One THEN hl
  ELSE hl + Lg2(One + RatioQ(hl - ll)) - FracBits * One

\* x - y as a real of sign sg, from hl = log x and r = (y / x) * One
SubRatio(sg, hl, r) ==
  IF r >= One THEN Zero ELSE [s |-> sg, l |-> hl + Lg2(One - r) - FracBits * One]

\* x - y for magnitudes with logs hl >= ll, as a real of sign sg
SubMag(sg, hl, ll) ==
  IF hl - ll >= (FracBits + 1) * One THEN [s |-> sg, l |-> hl]
  ELSE SubRatio(sg, hl, RatioQ(hl - ll))

RAdd(a, b) ==
  IF a.s = 0 THEN b
  ELSE IF b.s = 0 THEN a
  ELSE IF a.s = b.s THEN [s |-> a.s, l |-> AddMag(Max(a.l, b.l), Min(a.l, b.l))]
  ELSE SubMag(IF a.l >= b.l THEN a.s ELSE b.s, Max(a.l, b.l), Min(a.l, b.l))

RSub(a, b) == RAdd(a, RNeg(b))

\* round(a * scale) as an integer: Python's round(a, digits) in units of 1 / scale
RoundTo(a, scale) == IF a.s = 0 THEN 0 ELSE a.s * RoundExp(a.l + Lg(scale))

\* the real sg * n / scale from lgs = Lg(scale)
RScaled(sg, n, lgs) == IF n = 0 THEN Zero ELSE [s |-> sg, l |-> Lg(n) - lgs]

\* round(a * scale) / scale from lgs = Lg(scale), or a itself once a * scale is
\* beyond the precision a real carries
RRoundLg(a, lgs) ==
  IF a.l + lgs >= (FracBits + 1) * One THEN a
  ELSE RScaled(a.s, RoundExp(a.l + lgs), lgs)

\* round(a, digits) kept as a real, scale = 10^digits
RRound(a, scale) == IF a.s = 0 THEN Zero ELSE RRoundLg(a, Lg(scale))

\* pi * Wide
PiQ == 52707179

SinTerms == 10

RECURSIVE SinSeries(_, _, _, _)
\* the series continued with its term t of order k
SinTerm(x2, k, t, acc) == SinSeries(x2, k + 1, t, IF k % 2 = 1 THEN acc - t ELSE acc + t)

SinSeries(x2, k, term, acc) ==
  IF k > SinTerms THEN acc
  ELSE SinTerm(x2, k, MulQ(term, x2) \div ((2 * k) * (2 * k + 1)), acc)

\* math.sin(x) * Wide for 0 <= x <= pi given as x * Wide
SinQ(x) == SinSeries(MulQ(x, x), 1, x, x)

\* the fixed-point value w / Wide as a real
RFromQ(w) == IF w <= 0 THEN Zero ELSE [s |-> 1, l |-> Lg2(w) - WideBits * One]

\* math.sin(math.radians(deg)) for whole degrees 1..90
SinDeg == [deg \in 1..90 |-> RFromQ(SinQ(ScaleQ(PiQ, deg, 180)))]

RPi == RFromQ(PiQ)

(***************************************************************************)
(* Argument encodings.  Python None is the integer None; H magnitudes are  *)
(* in tenths, speeds in hundredths of km/s, densities in kg/m^3, angles in *)
(* whole degrees, rounded radii and crater sizes in hundredths of a km.    *)
(***************************************************************************)
None == -1000000

\* Python truthiness of an optional number: None and 0 are both false
Truthy(v) == v # None /\ v # 0

(***************************************************************************)
(* calculate_asteroid_density                                              *)
(***************************************************************************)
porosity_factor == RQ(8, 10)

\* a classification that counts H = 22 as C-type
calculate_asteroid_density_from_22(absolute_magnitude_h, diameter_m) ==
  LET base == IF absolute_magnitude_h >= 220
                THEN [density |-> 1410, asteroid_type |-> "C-type", confidence |-> 8]
              ELSE IF absolute_magnitude_h > 180
                THEN [density |-> 2700, asteroid_type |-> "S-type", confidence |-> 7]
              ELSE [density |-> 2700, asteroid_type |-> "S-type", confidence |-> 6]
  IN  [density |-> IF diameter_m < 100 THEN RMul(RInt(base.density), porosity_factor)
                                        ELSE RInt(base.density),
       asteroid_type |-> base.asteroid_type,
       confidence |-> base.confidence]

\* absolute_magnitude_h is in tenths of a magnitude
calculate_asteroid_density(absolute_magnitude_h, diameter_m) ==
  LET base == IF absolute_magnitude_h > 220
                THEN [density |-> 1410, asteroid_type |-> "C-type", confidence |-> 8]
              ELSE IF absolute_magnitude_h > 180
                THEN [density |-> 2700, asteroid_type |-> "S-type", confidence |-> 7]
              ELSE [density |-> 2700, asteroid_type |-> "S-type", confidence |-> 6]
  IN  [density |-> IF diameter_m < 100 THEN RMul(RInt(base.density), porosity_factor)
                                        ELSE RInt(base.density),
       asteroid_type |-> base.asteroid_type,
       confidence |-> base.confidence]

(***************************************************************************)
(* collins_crater_scaling                                                  *)
(***************************************************************************)
\* a depth rule that treats a crater of exactly 4 km as a complex crater
crater_depth_from_4km(crater_diameter_km) ==
  IF RLe(RInt(4), crater_diameter_km)
    THEN RMul(crater_diameter_km, RQ(2, 10))
    ELSE RMul(crater_diameter_km, RQ(3, 10))

\* depth/diameter rule of collins_crater_scaling
crater_depth_km(crater_diameter_km) ==
  IF RLt(RInt(4), crater_diameter_km)
    THEN RMul(crater_diameter_km, RQ(2, 10))
    ELSE RMul(crater_diameter_km, RQ(3, 10))

K1 == RQ(125, 100)

\* the pair collins_crater_scaling returns for a crater of this diameter
CraterOf(crater_diameter_km) ==
  [crater_diameter_km |-> crater_diameter_km,
   crater_depth_km |-> crater_depth_km(crater_diameter_km)]

\* returns [crater_diameter_km, crater_depth_km]
collins_crater_scaling(energy_joules, projectile_density, target_density, angle, gravity) ==
  CraterOf(RDiv(RMul(K1,
                RMul(RPow(RAbs(energy_joules), 22, 100),
                RMul(RPow(RAbs(projectile_density), 33, 100),
                RMul(RPow(RDiv(RInt(1), RAbs(target_density)), 33, 100),
                RMul(RPow(RDiv(RInt(1), RAbs(gravity)), 22, 100),
                     RPow(SinDeg[Max(Abs(angle), 15)], 33, 100)))))),
                RInt(1000)))

(***************************************************************************)
(* collins_overpressure_zones                                              *)
(***************************************************************************)
ground_coupling == RQ(13, 10)

\* the unrounded radii for tnt_tons of equivalent TNT
RadiiOfTons(tnt_tons, energy_megatons, crater_diameter_km, projectile_density) ==
  [total_destruction_km |->
     RMul(RMul(RQ(32, 100), RPow(tnt_tons, 1, 3)),
          RAdd(RInt(1), RDiv(crater_diameter_km, RInt(10)))),
   severe_damage_km |->
     RMul(RMul(RQ(61, 100), RPow(tnt_tons, 1, 3)),
          RAdd(RInt(1), RDiv(crater_diameter_km, RInt(20)))),
   moderate_damage_km |->
     RMul(RMul(RQ(115, 100), RPow(tnt_tons, 1, 3)),
          RAdd(RInt(1), RDiv(crater_diameter_km, RInt(30)))),
   thermal_burns_km |->
     RMul(RMul(RQ(18, 100), RPow(tnt_tons, 41, 100)),
          IF RLt(RInt(4000), projectile_density) THEN RQ(12, 10) ELSE RInt(1)),
   seismic_damage_km |->
     IF RLt(RInt(1), energy_megatons) THEN RMul(RQ(25, 10), RPow(tnt_tons, 1, 4)) ELSE Zero,
   crater_radius_km |-> RDiv(crater_diameter_km, RInt(2))]

\* the unrounded radii computed before the zone list is built
ZoneRadii(energy_megatons, crater_diameter_km, projectile_density) ==
  RadiiOfTons(RMul(RMul(energy_megatons, ground_coupling), RInt(1000000)),
              energy_megatons, crater_diameter_km, projectile_density)

\* the order in which the zone list is written, before filtering
ZoneOrder ==
  << <<"seismic_damage", "seismic_damage_km">>,
     <<"thermal_burns", "thermal_burns_km">>,
     <<"moderate_damage", "moderate_damage_km">>,
     <<"severe_damage", "severe_damage_km">>,
     <<"total_destruction", "total_destruction_km">>,
     <<"crater", "crater_radius_km">> >>

\* the six zones as written, radius_km being round(radius, 2) in hundredths of a km
ZonesWritten(radii) ==
  [i \in 1..Len(ZoneOrder) |-> [type |-> ZoneOrder[i][1],
                                radius_km |-> RoundTo(radii[ZoneOrder[i][2]], 100)]]

\* a zone list that keeps all six zones, whatever their radius
collins_overpressure_zones_unfiltered(energy_megatons, crater_diameter_km, projectile_density) ==
  ZonesWritten(ZoneRadii(energy_megatons, crater_diameter_km, projectile_density))

\* list of [type, radius_km]
collins_overpressure_zones(energy_megatons, crater_diameter_km, projectile_density) ==
  SelectSeq(ZonesWritten(ZoneRadii(energy_megatons, crater_diameter_km, projectile_density)),
            LAMBDA zone : zone.radius_km > 0)

(***************************************************************************)
(* Python ints.  A count that fits the integers of the model is the exact  *)
(* integer n; a larger one has n = Big and is carried by its real value r. *)
(***************************************************************************)
Big == -1

Count(k) == [n |-> k, r |-> RInt(k)]

\* int(x) for a real x >= 0
PyInt(x) ==
  IF x.s = 0 THEN Count(0)
  ELSE IF x.l < 30 * One THEN Count(FloorExp(x.l))
  ELSE [n |-> Big, r |-> x]

\* int(population * rate) for the rate num / den
IntTimesRate(population, rate) ==
  IF population.n # Big THEN Count(ScaleQ(population.n, rate.num, rate.den))
  ELSE PyInt(RMul(population.r, RQ(rate.num, rate.den)))

\* a - b for counts with b <= a
CountMinus(a, b) ==
  IF a.n # Big /\ b.n # Big THEN Count(a.n - b.n)
  ELSE PyInt(RSub(a.r, b.r))

(***************************************************************************)
(* calculate_casualties_scientific                                         *)
(***************************************************************************)
\* rates whose injury share between 35 and 55 psi is not scaled down by the
\* survivors of the blast
CasualtyRatesUnscaled(overpressure_psi) ==
  IF overpressure_psi >= 350 /\ overpressure_psi < 550 THEN
    [fatality_rate |-> [num |-> 1000 + (overpressure_psi - 350) * 490, den |-> 100000],
     injury_rate |-> [num |-> 80000, den |-> 100000]]
  ELSE IF overpressure_psi >= 550 THEN
    [fatality_rate |-> [num |-> 990, den |-> 1000], injury_rate |-> [num |-> 10, den |-> 1000]]
  ELSE
    [fatality_rate |-> [num |-> 0, den |-> 1000], injury_rate |-> [num |-> 0, den |-> 1000]]

\* overpressure_psi is in tenths of a psi; rates are the fractions num / den
CasualtyRates(overpressure_psi) ==
  IF overpressure_psi >= 550 THEN
    [fatality_rate |-> [num |-> 990, den |-> 1000], injury_rate |-> [num |-> 10, den |-> 1000]]
  ELSE IF overpressure_psi >= 350 THEN
    LET fatality == 1000 + (overpressure_psi - 350) * 490
    IN  [fatality_rate |-> [num |-> fatality, den |-> 100000],
         injury_rate |-> [num |-> (8 * (100000 - fatality)) \div 10, den |-> 100000]]
  ELSE IF overpressure_psi >= 200 THEN
    [fatality_rate |-> [num |-> 800, den |-> 1000], injury_rate |-> [num |-> 150, den |-> 1000]]
  ELSE IF overpressure_psi >= 100 THEN
    [fatality_rate |-> [num |-> 500, den |-> 1000], injury_rate |-> [num |-> 400, den |-> 1000]]
  ELSE IF overpressure_psi >= 50 THEN
    [fatality_rate |-> [num |-> 50, den |-> 1000], injury_rate |-> [num |-> 700, den |-> 1000]]
  ELSE IF overpressure_psi >= 10 THEN
    [fatality_rate |-> [num |-> 1, den |-> 1000], injury_rate |-> [num |-> 100, den |-> 1000]]
  ELSE
    [fatality_rate |-> [num |-> 0, den |-> 1000], injury_rate |-> [num |-> 0, den |-> 1000]]

\* the returned record, from the two counts
CasualtyRecord(population, rates, fatalities, injuries) ==
  [fatalities |-> fatalities,
   injuries |-> injuries,
   survivors |-> CountMinus(CountMinus(population, fatalities), injuries),
   fatality_rate |-> rates.fatality_rate,
   injury_rate |-> rates.injury_rate]

\* the counts at the given rates
CasualtiesAt(population, rates) ==
  CasualtyRecord(population, rates,
                 IntTimesRate(population, rates.fatality_rate),
                 IntTimesRate(population, rates.injury_rate))

calculate_casualties_scientific(overpressure_psi, population) ==
  CasualtiesAt(population, CasualtyRates(overpressure_psi))

(***************************************************************************)
(* generate_comparison: the label of the returned string                   *)
(***************************************************************************)
hiroshima == RQ(15, 1000)

\* a cascade whose first bound takes in the Hiroshima energy itself
generate_comparison_up_to_hiroshima(megatons) ==
  IF RLe(megatons, hiroshima) THEN "kilotons (smaller than Hiroshima)"
  ELSE IF RLt(megatons, RInt(15)) THEN "x Hiroshima bomb"
  ELSE IF RLt(megatons, RInt(1000)) THEN
    IF RLe(RInt(10), megatons) /\ RLe(megatons, RInt(20))
      THEN "Tunguska event scale"
      ELSE "megatons (major catastrophe)"
  ELSE IF RLt(megatons, RInt(100000)) THEN "megatons (civilization-threatening)"
  ELSE "megatons (dinosaur extinction level)"

generate_comparison(megatons) ==
  IF RLt(megatons, hiroshima) THEN "kilotons (smaller than Hiroshima)"
  ELSE IF RLt(megatons, RInt(15)) THEN "x Hiroshima bomb"
  ELSE IF RLt(megatons, RInt(1000)) THEN
    IF RLe(RInt(10), megatons) /\ RLe(megatons, RInt(20))
      THEN "Tunguska event scale"
      ELSE "megatons (major catastrophe)"
  ELSE IF RLt(megatons, RInt(100000)) THEN "megatons (civilization-threatening)"
  ELSE "megatons (dinosaur extinction level)"

(***************************************************************************)
(* calculate_distance and estimate_population_from_coordinates.            *)
(* Latitudes and longitudes are in units of 0.0001 degree.                 *)
(***************************************************************************)
\* (pi / 180 / 10000) * 2^GuardBits * Wide: radians per 0.0001 degree
RadPerUnitQ == 30704120

\* math.radians of a non-negative angle given in 0.0001 degree, times Wide
RadiansQ(deg) == MulQ(deg * 2^GuardBits, RadPerUnitQ)



\* math.cos of a latitude in -90..90 degrees: sin(pi/2 - |lat|)
CosLat(lat) == RFromQ(SinQ((PiQ \div 2) - RadiansQ(Abs(lat))))

\* math.sin(d / 2) ** 2 for the angle difference d
SinHalfSq(d) == RPow(RFromQ(SinQ(RadiansQ(Abs(d)) \div 2)), 2, 1)

\* x * (1 + x2/6 + 3 * x2^2/40) for x2 = x^2
AsinSeries(x, x2) ==
  RMul(x, RAdd(RInt(1), RAdd(RDiv(x2, RInt(6)), RMul(RQ(3, 40), RMul(x2, x2)))))

\* math.asin(x) for x >= 0 by x + x^3/6 + 3x^5/40: exact to the last place for
\* x <= 0.05 (distances up to 600 km) and a lower bound on asin beyond that
Asin(x) == AsinSeries(x, RMul(x, x))

calculate_distance(lat1, lon1, lat2, lon2) ==
  RMul(RInt(6371),
       RMul(RInt(2),
            Asin(RPow(RAdd(SinHalfSq(lat2 - lat1),
                           RMul(RMul(CosLat(lat1), CosLat(lat2)), SinHalfSq(lon2 - lon1))),
                      1, 2))))

\* <<lat, lon, density_people_per_km2, influence_radius_km>>
major_cities ==
  << <<407128, -740060, 10000, 100>>,
     <<515074, -1278, 5700, 80>>,
     <<356762, 1396503, 6000, 120>>,
     <<557558, 376176, 4900, 90>>,
     <<286139, 772090, 11000, 80>>,
     <<312304, 1214737, 3800, 100>>,
     <<399042, 1164074, 1300, 120>>,
     <<-235505, -466333, 7400, 80>>,
     <<194326, -991332, 6000, 90>>,
     <<377749, -1224194, 6600, 70>>,
     <<340522, -1182437, 3200, 120>>,
     <<488566, 23522, 20000, 50>>,
     <<525200, 134050, 4000, 70>>,
     <<419028, 124964, 2200, 60>>,
     <<404168, -37038, 5200, 70>>,
     <<593293, 180686, 4800, 50>>,
     <<-338688, 1512093, 2100, 80>>,
     <<-378136, 1449631, 2000, 70>>,
     <<13521, 1038198, 8000, 40>>,
     <<252048, 552708, 400, 60>> >>

RECURSIVE CityLoop(_, _, _, _)
\* the body of the loop for city i at the given distance
CityStep(latitude, longitude, i, max_density, distance) ==
  IF RLt(distance, RInt(major_cities[i][4]))
    THEN CityLoop(latitude, longitude, i + 1,
                  RMax(max_density,
                       RMul(RInt(major_cities[i][3]),
                            RMax(Zero,
                                 RSub(RInt(1),
                                      RPow(RDiv(distance, RInt(major_cities[i][4])), 1, 2))))))
    ELSE CityLoop(latitude, longitude, i + 1, max_density)

\* the loop over major_cities from city i on, with max_density so far
CityLoop(latitude, longitude, i, max_density) ==
  IF i > Len(major_cities) THEN max_density
  ELSE CityStep(latitude, longitude, i, max_density,
                calculate_distance(latitude, longitude, major_cities[i][1], major_cities[i][2]))

\* max_density as the ocean heuristic sets it
OceanDensity(latitude) == IF Abs(latitude) < 600000 THEN RInt(5) ELSE RQ(1, 10)

\* max_density after the land-mass heuristic
LandDensity(latitude, max_density) ==
  IF 200000 <= Abs(latitude) /\ Abs(latitude) <= 600000 THEN RMax(max_density, RInt(20))
  ELSE IF Abs(latitude) < 200000 THEN RMax(max_density, RInt(15))
  ELSE max_density

\* max_density after the longitude-based adjustment for the continents
ContinentDensity(latitude, longitude, max_density) ==
  IF -100000 <= longitude /\ longitude <= 1800000
     /\ 300000 <= latitude /\ latitude <= 700000
    THEN RMul(max_density, RInt(2))
  ELSE IF -1300000 <= longitude /\ longitude <= -600000
          /\ 250000 <= latitude /\ latitude <= 600000
    THEN RMul(max_density, RQ(15, 10))
  ELSE IF -200000 <= longitude /\ longitude <= 500000
          /\ -350000 <= latitude /\ latitude <= 300000
    THEN RMul(max_density, RQ(12, 10))
  ELSE max_density

\* the geographic heuristics applied when max_density < 50
BandDensity(latitude, longitude) ==
  ContinentDensity(latitude, longitude, LandDensity(latitude, OceanDensity(latitude)))

\* an estimate that keeps whatever density a city contributed, however small
EstimateFrom_any_city_density(latitude, longitude, max_density) ==
  RMax(IF RLt(Zero, max_density) THEN max_density ELSE BandDensity(latitude, longitude),
       RQ(1, 10))

\* the value returned for the max_density the loop found
EstimateFrom(latitude, longitude, max_density) ==
  RMax(IF RLt(max_density, RInt(50)) THEN BandDensity(latitude, longitude) ELSE max_density,
       RQ(1, 10))

estimate_population_from_coordinates(latitude, longitude) ==
  EstimateFrom(latitude, longitude, CityLoop(latitude, longitude, 1, Zero))

(***************************************************************************)
(* get_population_density_worldpop.  response is what the remote request   *)
(* does when it is made.                                                   *)
(***************************************************************************)
Responses == {"taskid", "api_error", "http_error", "timeout", "exception"}

\* <<lat, lon>>: open ocean, Chelyabinsk, Tunguska, near New York, central Paris,
\* South Pole
Locations == {<<0, 0>>, <<551500, 614100>>, <<609000, 1019000>>, <<410000, -740000>>,
              <<488566, 23522>>, <<-900000, 0>>}

\* estimate_population_from_coordinates at each location, evaluated once
EstimateAt == [loc \in Locations |-> estimate_population_from_coordinates(loc[1], loc[2])]

\* the request is made only when the estimate exceeds 50
LookupAttempted(latitude, longitude) == RLt(RInt(50), EstimateAt[<<latitude, longitude>>])

\* what the remote lookup of a call at this location can do
LookupOutcomes(latitude, longitude) ==
  IF LookupAttempted(latitude, longitude) THEN Responses ELSE {"not_attempted"}

\* a lookup that answers a timeout with the default density of 100
get_population_density_default_on_timeout(latitude, longitude, response) ==
  IF response = "timeout" THEN RInt(100) ELSE EstimateAt[<<latitude, longitude>>]

\* a lookup without the handlers of physics.py:78-83: a timeout or any other
\* exception of the request leaves the function
get_population_density_unhandled(latitude, longitude, response) ==
  IF response \in {"timeout", "exception"} THEN [raised |-> response]
  ELSE EstimateAt[<<latitude, longitude>>]

\* a lookup that returns a density read from the remote answer when the job
\* was accepted
get_population_density_from_answer(latitude, longitude, response) ==
  IF response = "taskid" THEN RInt(100) ELSE EstimateAt[<<latitude, longitude>>]

\* the value returned when the estimate is estimated_density
DensityReturned(estimated_density, response) ==
  IF RLt(RInt(50), estimated_density) THEN
    CASE response = "taskid" -> estimated_density
      [] response = "api_error" -> estimated_density
      [] response = "http_error" -> estimated_density
      [] response = "timeout" -> estimated_density
      [] OTHER -> estimated_density
  ELSE estimated_density

get_population_density_worldpop(latitude, longitude, response) ==
  DensityReturned(EstimateAt[<<latitude, longitude>>], response)

(***************************************************************************)
(* calculate_impact                                                        *)
(***************************************************************************)
\* density_kg_m3, asteroid_type, confidence (in tenths) chosen by calculate_impact
ImpactDensity(size_m, absolute_magnitude_h, custom_density_kg_m3) ==
  IF Truthy(custom_density_kg_m3)
    THEN [density |-> RInt(custom_density_kg_m3), asteroid_type |-> "Custom", confidence |-> 10]
  ELSE IF Truthy(absolute_magnitude_h)
    THEN calculate_asteroid_density(absolute_magnitude_h, size_m)
  ELSE [density |-> RInt(2700), asteroid_type |-> "S-type (assumed)", confidence |-> 5]

\* a retention factor whose lowest bin takes in the 50 m body
deceleration_factor_to_50(size_m) ==
  IF size_m <= 50 THEN RQ(70, 100)
  ELSE IF size_m < 200 THEN RQ(85, 100)
  ELSE RQ(95, 100)

deceleration_factor(size_m) ==
  IF size_m < 50 THEN RQ(70, 100)
  ELSE IF size_m < 200 THEN RQ(85, 100)
  ELSE RQ(95, 100)

\* radius_km of the first zone of the given type, 0 when there is none
ZoneRadius(damage_zones, type) ==
  IF \E i \in 1..Len(damage_zones) : damage_zones[i].type = type
    THEN damage_zones[CHOOSE i \in 1..Len(damage_zones) : damage_zones[i].type = type].radius_km
    ELSE 0

\* the local variables of calculate_impact once the mass and the surface
\* velocity are known
FrameOfBody(a, composition) ==
  [density_kg_m3 |-> composition.density,
   asteroid_type |-> composition.asteroid_type,
   confidence |-> composition.confidence,
   mass_kg |-> RMul(RMul(RMul(RQ(4, 3), RPi), RPow(RQ(a.size_m, 2), 3, 1)),
                    composition.density),
   surface_velocity_m_s |-> RMul(RMul(RQ(a.speed_km_s, 100), RInt(1000)),
                                 deceleration_factor(a.size_m))]

\* ... once the energy is known
FrameOfEnergy(f, energy_joules) ==
  f @@ [energy_joules |-> energy_joules,
        energy_megatons |-> RDiv(energy_joules, RSci(4184, 12))]

\* ... once the crater and the damage zones are known
FrameOfCrater(f, crater) ==
  f @@ [crater_diameter_km |-> crater.crater_diameter_km,
        crater_depth_km |-> crater.crater_depth_km,
        radii |-> ZoneRadii(f.energy_megatons, crater.crater_diameter_km, f.density_kg_m3),
        damage_zones |-> collins_overpressure_zones(f.energy_megatons,
                                                    crater.crater_diameter_km,
                                                    f.density_kg_m3)]

\* ... once the affected population is known; calculate_impact has no handler,
\* so an exception that leaves the lookup leaves calculate_impact
FrameOfPopulation(f, total_destruction_km, population_density) ==
  IF "raised" \in DOMAIN population_density THEN [raised |-> population_density.raised]
  ELSE
  f @@ [total_destruction_km |-> total_destruction_km,
        population_density |-> population_density,
        affected_population |->
          PyInt(RMul(RMul(RPi, RPow(total_destruction_km, 2, 1)), population_density))]

\* casualties evaluated at 10 psi, the rim of the severe-damage zone
FrameOfCasualties_at_10_psi(f) ==
  IF "raised" \in DOMAIN f THEN f
  ELSE
  f @@ [casualty_data |-> calculate_casualties_scientific(100, f.affected_population),
        comparison |-> generate_comparison(f.energy_megatons)]

\* ... when calculate_impact returns
FrameOfCasualties(f) ==
  IF "raised" \in DOMAIN f THEN f
  ELSE
  f @@ [casualty_data |-> calculate_casualties_scientific(200, f.affected_population),
        comparison |-> generate_comparison(f.energy_megatons)]

FrameWithEnergy(f) ==
  FrameOfEnergy(f, RMul(RMul(RQ(1, 2), f.mass_kg), RPow(f.surface_velocity_m_s, 2, 1)))

FrameWithCrater(a, f) ==
  FrameOfCrater(f, collins_crater_scaling(f.energy_joules, f.density_kg_m3, RInt(2500),
                                          a.angle, RQ(981, 100)))

FrameWithPopulation(a, response, f) ==
  FrameOfPopulation(f, RQ(ZoneRadius(f.damage_zones, "total_destruction"), 100),
                    get_population_density_worldpop(a.lat, a.lon, response))

\* the local variables of calculate_impact when it returns
ImpactFrame(a, response) ==
  FrameOfCasualties(
    FrameWithPopulation(a, response,
      FrameWithCrater(a,
        FrameWithEnergy(
          FrameOfBody(a, ImpactDensity(a.size_m, a.absolute_magnitude_h,
                                       a.custom_density_kg_m3))))))

\* a record whose energy is rounded to 2 decimals instead of 3
calculate_impact_two_decimals(f) ==
  IF "raised" \in DOMAIN f THEN f
  ELSE
  [energy_megatons |-> RRound(f.energy_megatons, 100),
   crater_diameter_km |-> RoundTo(f.crater_diameter_km, 100),
   crater_depth_km |-> RoundTo(f.crater_depth_km, 100),
   damage_zones |-> f.damage_zones,
   deaths_estimated |-> f.casualty_data.fatalities,
   injuries_estimated |-> f.casualty_data.injuries,
   comparison |-> f.comparison,
   scientific_metadata |->
     [asteroid_type |-> f.asteroid_type,
      density_used_kg_m3 |-> f.density_kg_m3,
      population_density_used |-> f.population_density,
      casualty_model |-> "Glasstone & Dolan (1977)",
      population_source |-> "Enhanced Geographic Estimation + WorldPop API Ready"]]

\* the record calculate_impact returns, from its local variables
calculate_impact(f) ==
  IF "raised" \in DOMAIN f THEN f
  ELSE
  [energy_megatons |-> RRound(f.energy_megatons, 1000),
   crater_diameter_km |-> RoundTo(f.crater_diameter_km, 100),
   crater_depth_km |-> RoundTo(f.crater_depth_km, 100),
   damage_zones |-> f.damage_zones,
   deaths_estimated |-> f.casualty_data.fatalities,
   injuries_estimated |-> f.casualty_data.injuries,
   comparison |-> f.comparison,
   scientific_metadata |->
     [asteroid_type |-> f.asteroid_type,
      density_used_kg_m3 |-> f.density_kg_m3,
      population_density_used |-> f.population_density,
      casualty_model |-> "Glasstone & Dolan (1977)",
      population_source |-> "Enhanced Geographic Estimation + WorldPop API Ready"]]

(***************************************************************************)
(* Deflection planner.  Masses, velocities and times are reals; a call     *)
(* that raises returns the record [raised |-> exception name].             *)
(***************************************************************************)
\* IEEE values that are no real: the infinities (sg is 1 or -1) and not-a-number
Infinity(sg) == [inf |-> sg]

NaN == [nan |-> TRUE]

IsNaN(a) == "nan" \in DOMAIN a

IsInf(a) == "inf" \in DOMAIN a

IsFinite(a) == "s" \in DOMAIN a

IsZero(a) == IsFinite(a) /\ a.s = 0

\* the place of a in the order of the floats, for a that is a number
FOrder(a) == IF IsInf(a) THEN 2 * a.inf ELSE a.s

IsNegative(a) == ~IsNaN(a) /\ FOrder(a) < 0

\* the literal m * 10^e as Python's float() reads it: infinite beyond the doubles
Float(m, e) == IF m # 0 /\ e > 308 THEN Infinity(Sign(m)) ELSE RSci(m, e)

FMul(a, b) ==
  IF IsNaN(a) \/ IsNaN(b) THEN NaN
  ELSE IF IsFinite(a) /\ IsFinite(b) THEN RMul(a, b)
  ELSE IF FOrder(a) * FOrder(b) = 0 THEN NaN
  ELSE Infinity(Sign(FOrder(a) * FOrder(b)))

\* a / b for b # 0
FDiv(a, b) ==
  IF IsNaN(a) \/ IsNaN(b) THEN NaN
  ELSE IF IsFinite(a) /\ IsFinite(b) THEN RDiv(a, b)
  ELSE IF IsInf(a) /\ IsInf(b) THEN NaN
  ELSE IF IsInf(a) THEN Infinity(a.inf * b.s)
  ELSE Zero

FAdd(a, b) ==
  IF IsNaN(a) \/ IsNaN(b) THEN NaN
  ELSE IF IsFinite(a) /\ IsFinite(b) THEN RAdd(a, b)
  ELSE IF IsInf(a) /\ IsInf(b) /\ a.inf # b.inf THEN NaN
  ELSE IF IsInf(a) THEN a
  ELSE b

\* a < b: false whenever one side is not-a-number
FLt(a, b) ==
  IF IsNaN(a) \/ IsNaN(b) THEN FALSE
  ELSE IF IsFinite(a) /\ IsFinite(b) THEN RLt(a, b)
  ELSE FOrder(a) < FOrder(b)

\* math.sqrt(a) for a that is not below zero
FSqrt(a) == IF IsFinite(a) THEN RPow(a, 1, 2) ELSE a

\* round(a, ndigits), scale being 10^ndigits
FRound(a, scale) == IF IsFinite(a) THEN RRound(a, scale) ELSE a

earth_radius_km == 6371

\* earth_radius_km * num / den as a real
EarthRadii(num, den) == RQ(earth_radius_km * num, den)

\* a rating whose two middle bands are exchanged
kinetic_effectiveness_exchanged(deflection_distance_km) ==
  IF FLt(EarthRadii(2, 1), deflection_distance_km)
    THEN [effectiveness |-> 100, status |-> "Complete deflection - Earth safe"]
  ELSE IF FLt(EarthRadii(1, 1), deflection_distance_km)
    THEN [effectiveness |-> 50, status |-> "Partial deflection - impact reduced"]
  ELSE IF FLt(EarthRadii(5, 10), deflection_distance_km)
    THEN [effectiveness |-> 80, status |-> "Major deflection - reduced impact"]
  ELSE [effectiveness |-> 20, status |-> "Minimal deflection - impact still likely"]

kinetic_effectiveness(deflection_distance_km) ==
  IF FLt(EarthRadii(2, 1), deflection_distance_km)
    THEN [effectiveness |-> 100, status |-> "Complete deflection - Earth safe"]
  ELSE IF FLt(EarthRadii(1, 1), deflection_distance_km)
    THEN [effectiveness |-> 80, status |-> "Major deflection - reduced impact"]
  ELSE IF FLt(EarthRadii(5, 10), deflection_distance_km)
    THEN [effectiveness |-> 50, status |-> "Partial deflection - impact reduced"]
  ELSE [effectiveness |-> 20, status |-> "Minimal deflection - impact still likely"]

\* a record whose success_probability is not capped at 95
KineticRecord_without_ceiling(velocity_change_km_s, deflection_distance_km, rating) ==
  [method |-> "Kinetic Impactor",
   velocity_change_km_s |-> FRound(velocity_change_km_s, 1000000),
   deflection_distance_km |-> FRound(deflection_distance_km, 100),
   effectiveness |-> rating.effectiveness,
   status |-> rating.status,
   time_required_days |-> RInt(30),
   success_probability |-> Max(20, rating.effectiveness + 10),
   description |-> FRound(velocity_change_km_s, 10000),
   unrounded |-> [velocity_change_km_s |-> velocity_change_km_s,
                  deflection_distance_km |-> deflection_distance_km]]

\* the record returned for the velocity change, the distance and their rating
KineticRecord(velocity_change_km_s, deflection_distance_km, rating) ==
  [method |-> "Kinetic Impactor",
   velocity_change_km_s |-> FRound(velocity_change_km_s, 1000000),
   deflection_distance_km |-> FRound(deflection_distance_km, 100),
   effectiveness |-> rating.effectiveness,
   status |-> rating.status,
   time_required_days |-> RInt(30),
   success_probability |-> Min(95, Max(20, rating.effectiveness + 10)),
   description |-> FRound(velocity_change_km_s, 10000),
   unrounded |-> [velocity_change_km_s |-> velocity_change_km_s,
                  deflection_distance_km |-> deflection_distance_km]]

KineticRated(velocity_change_km_s, deflection_distance_km) ==
  KineticRecord(velocity_change_km_s, deflection_distance_km,
                kinetic_effectiveness(deflection_distance_km))

\* from the velocity change: the deflection distance and the record
KineticChange(velocity_change_km_s, time_to_impact_days) ==
  KineticRated(velocity_change_km_s,
               FMul(FMul(velocity_change_km_s, time_to_impact_days), RInt(24)))

\* total_mass is asteroid_mass_kg + spacecraft_mass_kg
KineticTransfer(total_mass, time_to_impact_days, spacecraft_mass_kg, spacecraft_velocity_km_s) ==
  IF IsZero(total_mass) THEN [raised |-> "ZeroDivisionError"]
  ELSE KineticChange(
         FDiv(FDiv(FMul(spacecraft_mass_kg, FMul(spacecraft_velocity_km_s, RInt(1000))),
                   total_mass),
              RInt(1000)),
         time_to_impact_days)

_kinetic_impactor_deflection(asteroid_mass_kg, asteroid_velocity_km_s, time_to_impact_days, spacecraft_mass_kg, spacecraft_velocity_km_s) ==
  KineticTransfer(FAdd(asteroid_mass_kg, spacecraft_mass_kg), time_to_impact_days,
                  spacecraft_mass_kg, spacecraft_velocity_km_s)

gravity_tractor_effectiveness(deflection_distance_km) ==
  IF FLt(EarthRadii(15, 10), deflection_distance_km)
    THEN [effectiveness |-> 90, status |-> "Excellent deflection - Earth safe"]
  ELSE IF FLt(EarthRadii(1, 1), deflection_distance_km)
    THEN [effectiveness |-> 70, status |-> "Good deflection - impact avoided"]
  ELSE IF FLt(EarthRadii(3, 10), deflection_distance_km)
    THEN [effectiveness |-> 40, status |-> "Moderate deflection - impact reduced"]
  ELSE [effectiveness |-> 15, status |-> "Minimal deflection - impact still likely"]

GravityTractorRecord(velocity_change_km_s, deflection_distance_km, rating, time_required_days) ==
  [method |-> "Gravity Tractor",
   velocity_change_km_s |-> FRound(velocity_change_km_s, 1000000),
   deflection_distance_km |-> FRound(deflection_distance_km, 100),
   effectiveness |-> rating.effectiveness,
   status |-> rating.status,
   time_required_days |-> time_required_days,
   success_probability |-> Min(85, Max(30, rating.effectiveness + 5)),
   description |-> FRound(velocity_change_km_s, 10000),
   unrounded |-> [velocity_change_km_s |-> velocity_change_km_s,
                  deflection_distance_km |-> deflection_distance_km]]

\* a mission whose lead time has no floor of 365 days
GravityTractorRated_without_floor(velocity_change_km_s, deflection_distance_km, time_to_impact_days) ==
  GravityTractorRecord(velocity_change_km_s, deflection_distance_km,
                       gravity_tractor_effectiveness(deflection_distance_km),
                       RSub(time_to_impact_days, RInt(100)))

GravityTractorRated(velocity_change_km_s, deflection_distance_km, time_to_impact_days) ==
  GravityTractorRecord(velocity_change_km_s, deflection_distance_km,
                       gravity_tractor_effectiveness(deflection_distance_km),
                       RMax(RInt(365), RSub(time_to_impact_days, RInt(100))))

\* from the velocity change: the deflection distance and the record
GravityTractorChange(velocity_change_km_s, time_to_impact_days) ==
  GravityTractorRated(velocity_change_km_s,
                      FMul(FMul(velocity_change_km_s, time_to_impact_days), RInt(24)),
                      time_to_impact_days)

\* the tractor has 10000 kg and hovers at 100 m; G is 6.674e-11
_gravity_tractor_deflection(asteroid_mass_kg, asteroid_size_m, time_to_impact_days) ==
  IF IsZero(asteroid_mass_kg) THEN [raised |-> "ZeroDivisionError"]
  ELSE GravityTractorChange(
         FDiv(FMul(FDiv(FDiv(FMul(FMul(RSci(6674, -14), asteroid_mass_kg), RInt(10000)),
                             RPow(RInt(100), 2, 1)),
                        asteroid_mass_kg),
                   FMul(FMul(time_to_impact_days, RInt(24)), RInt(3600))),
              RInt(1000)),
         time_to_impact_days)

nuclear_effectiveness(deflection_distance_km) ==
  IF FLt(EarthRadii(3, 1), deflection_distance_km)
    THEN [effectiveness |-> 95, status |-> "Maximum deflection - Earth safe"]
  ELSE IF FLt(EarthRadii(15, 10), deflection_distance_km)
    THEN [effectiveness |-> 85, status |-> "Strong deflection - impact avoided"]
  ELSE IF FLt(EarthRadii(5, 10), deflection_distance_km)
    THEN [effectiveness |-> 60, status |-> "Significant deflection - impact reduced"]
  ELSE [effectiveness |-> 25, status |-> "Limited deflection - impact still likely"]

NuclearRecord(velocity_change_km_s, deflection_distance_km, rating) ==
  [method |-> "Nuclear Deflection",
   velocity_change_km_s |-> FRound(velocity_change_km_s, 1000000),
   deflection_distance_km |-> FRound(deflection_distance_km, 100),
   effectiveness |-> rating.effectiveness,
   status |-> rating.status,
   time_required_days |-> RInt(60),
   success_probability |-> Min(90, Max(40, rating.effectiveness)),
   description |-> FRound(velocity_change_km_s, 10000),
   unrounded |-> [velocity_change_km_s |-> velocity_change_km_s,
                  deflection_distance_km |-> deflection_distance_km]]

NuclearRated(velocity_change_km_s, deflection_distance_km) ==
  NuclearRecord(velocity_change_km_s, deflection_distance_km,
                nuclear_effectiveness(deflection_distance_km))

\* from the velocity change: the deflection distance and the record
NuclearChange(velocity_change_km_s, time_to_impact_days) ==
  NuclearRated(velocity_change_km_s,
               FMul(FMul(velocity_change_km_s, time_to_impact_days), RInt(24)))

\* ratio is 2 * kinetic_energy_joules / asteroid_mass_kg; math.sqrt raises
\* ValueError below zero
NuclearRatio(ratio, time_to_impact_days) ==
  IF IsNegative(ratio) THEN [raised |-> "ValueError"]
  ELSE NuclearChange(FDiv(FSqrt(ratio), RInt(1000)), time_to_impact_days)

\* a detonation that has to move the spacecraft along with the asteroid
_nuclear_deflection_with_device_mass(asteroid_mass_kg, asteroid_velocity_km_s, time_to_impact_days, spacecraft_mass_kg) ==
  NuclearRatio(
    FDiv(FMul(RInt(2), FMul(FMul(RInt(1), RSci(4184, 12)), RQ(1, 10))),
         FAdd(asteroid_mass_kg, spacecraft_mass_kg)),
    time_to_impact_days)

\* the yield is 1 megaton (4.184e15 J), a tenth of it becomes kinetic energy
_nuclear_deflection(asteroid_mass_kg, asteroid_velocity_km_s, time_to_impact_days, spacecraft_mass_kg) ==
  IF IsZero(asteroid_mass_kg) THEN [raised |-> "ZeroDivisionError"]
  ELSE NuclearRatio(
         FDiv(FMul(RInt(2), FMul(FMul(RInt(1), RSci(4184, 12)), RQ(1, 10))),
              asteroid_mass_kg),
         time_to_impact_days)

\* a dispatch that falls back on the kinetic impactor for any other name
calculate_deflection_with_default(asteroid_size_m, asteroid_mass_kg, asteroid_velocity_km_s, time_to_impact_days, deflection_method, spacecraft_mass_kg, spacecraft_velocity_km_s) ==
  IF deflection_method = "gravity_tractor" THEN
    _gravity_tractor_deflection(asteroid_mass_kg, asteroid_size_m, time_to_impact_days)
  ELSE IF deflection_method = "nuclear" THEN
    _nuclear_deflection(asteroid_mass_kg, asteroid_velocity_km_s, time_to_impact_days,
                        spacecraft_mass_kg)
  ELSE
    _kinetic_impactor_deflection(asteroid_mass_kg, asteroid_velocity_km_s,
                                 time_to_impact_days, spacecraft_mass_kg,
                                 spacecraft_velocity_km_s)

calculate_deflection(asteroid_size_m, asteroid_mass_kg, asteroid_velocity_km_s, time_to_impact_days, deflection_method, spacecraft_mass_kg, spacecraft_velocity_km_s) ==
  IF deflection_method = "kinetic_impactor" THEN
    _kinetic_impactor_deflection(asteroid_mass_kg, asteroid_velocity_km_s,
                                 time_to_impact_days, spacecraft_mass_kg,
                                 spacecraft_velocity_km_s)
  ELSE IF deflection_method = "gravity_tractor" THEN
    _gravity_tractor_deflection(asteroid_mass_kg, asteroid_size_m, time_to_impact_days)
  ELSE IF deflection_method = "nuclear" THEN
    _nuclear_deflection(asteroid_mass_kg, asteroid_velocity_km_s, time_to_impact_days,
                        spacecraft_mass_kg)
  ELSE [error |-> "Invalid deflection method"]

(***************************************************************************)
(* Validation harness                                                      *)
(***************************************************************************)
ChelyabinskArgs ==
  [size_m |-> 18, speed_km_s |-> 1916, angle |-> 18, lat |-> 551500, lon |-> 614100,
   absolute_magnitude_h |-> 260, custom_density_kg_m3 |-> None]

TunguskaArgs ==
  [size_m |-> 60, speed_km_s |-> 1500, angle |-> 45, lat |-> 609000, lon |-> 1019000,
   absolute_magnitude_h |-> 220, custom_density_kg_m3 |-> None]

\* the report for the absolute error of the calculated energy
ChelyabinskReport(impact, error) ==
  [event |-> "Chelyabinsk 2013",
   expected_energy_kt |-> RInt(500),
   calculated_energy_kt |-> RRound(RMul(impact.energy_megatons, RInt(1000)), 10),
   error_percentage |-> RMul(RDiv(error, RInt(500)), RInt(100)),
   within_uncertainty |-> RLt(error, RInt(250)),
   scientific_improvements |-> impact.scientific_metadata]

\* from the record calculate_impact returned
validate_against_chelyabinsk(impact) ==
  ChelyabinskReport(impact, RAbs(RSub(RMul(impact.energy_megatons, RInt(1000)), RInt(500))))

TunguskaReport(impact, error) ==
  [event |-> "Tunguska 1908",
   expected_energy_mt |-> RInt(10),
   calculated_energy_mt |-> RRound(impact.energy_megatons, 10),
   error_percentage |-> RMul(RDiv(error, RInt(10)), RInt(100)),
   within_uncertainty |-> RLt(error, RInt(5)),
   scientific_improvements |-> impact.scientific_metadata]

validate_against_tunguska(impact) ==
  TunguskaReport(impact, RAbs(RSub(impact.energy_megatons, RInt(10))))

VARIABLES
  pc,      \* "idle", or "returned" once a call has returned
  op,      \* the function called
  args,    \* its arguments
  net,     \* what the remote population lookup of the call did
  result,  \* the value the call returned
  locals,  \* local variables of the call when it returned
  runs,    \* how many calls the caller has made since it was idle
  prev,    \* args, net, result and locals of the call before the current one
  request, \* the HTTP request being served and the response to it
  calls    \* for each thread that calls the engine on its own: its call

\* the state of the single caller
caller == <<pc, op, args, net, result, locals, runs, prev>>

\* the state outside the single caller
others == <<request, calls>>

vars == <<pc, op, args, net, result, locals, runs, prev, request, calls>>

\* how often the caller repeats a calculate_impact call
MaxRuns == 2

\* largest population passed to calculate_casualties_scientific directly
MaxPopulation == 12

\* largest whole overpressure (psi) passed to calculate_casualties_scientific
MaxPsi == 57

ImpactSizes == {10, 18, 49, 50, 60, 99, 100, 199, 200, 1000, 10000}

ImpactSpeeds == {1000, 1916, 7000}

ImpactAngles == {15, 45, 90}

Magnitudes == {None, 0, 100, 180, 220, 260}

Densities == {None, 8000}

\* every physical combination at one site, and three bodies at every site
ImpactArgs ==
  [size_m : ImpactSizes, speed_km_s : ImpactSpeeds, angle : ImpactAngles,
   lat : {0}, lon : {0}, absolute_magnitude_h : Magnitudes,
   custom_density_kg_m3 : Densities]
  \cup
  {[size_m |-> sz, speed_km_s |-> 2000, angle |-> 45, lat |-> loc[1], lon |-> loc[2],
    absolute_magnitude_h |-> None, custom_density_kg_m3 |-> None] :
      sz \in {10, 100, 1000}, loc \in Locations}
  \cup {ChelyabinskArgs, TunguskaArgs}

Methods == {"kinetic_impactor", "gravity_tractor", "nuclear"}

MethodNames == Methods \cup {"", "Nuclear", "KINETIC_IMPACTOR", "laser"}

\* <<m, e>> stands for m * 10^e
Masses == {<<0, 0>>, <<1, 3>>, <<6, 3>>, <<3, 8>>, <<1, 9>>, <<1, 10>>}

Days == {0, 30, 365, 3650, 200000, 250000, 300000}

DeflectionArgs ==
  [asteroid_size_m : {100}, asteroid_mass_kg : Masses, asteroid_velocity_km_s : {20},
   time_to_impact_days : Days, deflection_method : MethodNames,
   spacecraft_mass_kg : {500, 1000}, spacecraft_velocity_km_s : {10}]

ZoneEnergies == {<<0, 0>>, <<1, -9>>, <<1, -3>>, <<5, -1>>, <<1, 0>>, <<1001, -3>>,
                 <<2, 0>>, <<1, 3>>, <<1, 6>>, <<7, 8>>}

ZoneCraters == {<<0, 0>>, <<1, -3>>, <<5, -1>>, <<4, 0>>, <<19, 1>>, <<6, 2>>}

ZoneDensities == {1000, 4000, 4001, 8000}

\* 1258371e11 J on rock at 45 degrees digs a crater of 4 km
CraterEnergies == {<<1, 12>>, <<31, 13>>, <<2, 16>>, <<1258371, 11>>, <<1, 20>>, <<3, 24>>}

Overpressures == {10 * p : p \in 0..MaxPsi} \cup {-10, 9, 355, 549}

Populations == 0..MaxPopulation \cup {1000, 20000}

\* <<n, d>> stands for n / d megatons: both sides of every threshold of
\* generate_comparison
ComparisonEnergies ==
  {<<0, 1>>, <<1, 1000>>, <<14, 1000>>, <<15, 1000>>, <<16, 1000>>, <<1, 1>>, <<999, 100>>,
   <<10, 1>>, <<12, 1>>, <<149, 10>>, <<15, 1>>, <<20, 1>>, <<201, 10>>, <<999, 1>>,
   <<1000, 1>>, <<99999, 1>>, <<100000, 1>>, <<1000000, 1>>}

NoValue == <<>>

\* how many threads call the engine at the same time
MaxThreads == 2

Threads == 1..MaxThreads

\* a thread that is not inside a call
IdleCall ==
  [pc |-> "idle", op |-> "none", args |-> NoValue, net |-> "none", locals |-> NoValue,
   result |-> NoValue]

Init ==
  /\ pc = "idle"
  /\ op = "none"
  /\ args = NoValue
  /\ net = "none"
  /\ result = NoValue
  /\ locals = NoValue
  /\ runs = 0
  /\ prev = NoValue
  /\ request = NoValue
  /\ calls = [t \in Threads |-> IdleCall]

\* calculate_impact(a) returns from the frame f of its local variables
ReturnImpact(a, response, f) ==
  /\ op' = "calculate_impact"
  /\ args' = a
  /\ net' = response
  /\ locals' = f
  /\ result' = calculate_impact(f)

\* one execution of calculate_impact(a) whose remote lookup, if made, does response
RunImpact(a, response) == ReturnImpact(a, response, ImpactFrame(a, response))

CallImpact(a, response) ==
  /\ pc = "idle"
  /\ RunImpact(a, response)
  /\ pc' = "returned"
  /\ runs' = 1
  /\ prev' = NoValue
  /\ UNCHANGED others

\* the caller repeats its calculate_impact call with equal arguments
RepeatImpact(response) ==
  /\ pc = "returned"
  /\ op = "calculate_impact"
  /\ runs < MaxRuns
  /\ response \in LookupOutcomes(args.lat, args.lon)
  /\ RunImpact(args, response)
  /\ runs' = runs + 1
  /\ prev' = [args |-> args, net |-> net, result |-> result, locals |-> locals]
  /\ UNCHANGED pc
  /\ UNCHANGED others

\* a validation returns from the frame f of its calculate_impact call
ReturnValidation(name, response, f, report) ==
  /\ op' = name
  /\ args' = NoValue
  /\ net' = response
  /\ locals' = f
  /\ result' = report
  /\ pc' = "returned"
  /\ runs' = 1
  /\ prev' = NoValue
  /\ UNCHANGED others

ChelyabinskFrom(response, f) ==
  ReturnValidation("validate_against_chelyabinsk", response, f,
                   validate_against_chelyabinsk(calculate_impact(f)))

ValidateChelyabinsk(response) ==
  /\ pc = "idle"
  /\ ChelyabinskFrom(response, ImpactFrame(ChelyabinskArgs, response))

TunguskaFrom(response, f) ==
  ReturnValidation("validate_against_tunguska", response, f,
                   validate_against_tunguska(calculate_impact(f)))

ValidateTunguska(response) ==
  /\ pc = "idle"
  /\ TunguskaFrom(response, ImpactFrame(TunguskaArgs, response))

\* the record a deflection model returns, without the model-only field
Returned(r) ==
  IF "unrounded" \in DOMAIN r THEN [k \in DOMAIN r \ {"unrounded"} |-> r[k]] ELSE r

Unrounded(r) == IF "unrounded" \in DOMAIN r THEN r.unrounded ELSE NoValue

\* calculate_deflection(a) returns the record r
ReturnDeflection(a, r) ==
  /\ op' = "calculate_deflection"
  /\ args' = a
  /\ net' = "none"
  /\ locals' = Unrounded(r)
  /\ result' = Returned(r)

\* the record calculate_deflection returns for the arguments a
DeflectionOf(a) ==
  calculate_deflection(RInt(a.asteroid_size_m),
                       Float(a.asteroid_mass_kg[1], a.asteroid_mass_kg[2]),
                       RInt(a.asteroid_velocity_km_s),
                       RInt(a.time_to_impact_days),
                       a.deflection_method,
                       RInt(a.spacecraft_mass_kg),
                       RInt(a.spacecraft_velocity_km_s))

RunDeflection(a) == ReturnDeflection(a, DeflectionOf(a))

CallDeflection(a) ==
  /\ pc = "idle"
  /\ RunDeflection(a)
  /\ pc' = "returned"
  /\ runs' = 1
  /\ prev' = NoValue
  /\ UNCHANGED others

\* a second calculate_deflection call for the same method and time to impact
CompareDeflection(b) ==
  /\ pc = "returned"
  /\ op = "calculate_deflection"
  /\ runs = 1
  /\ b.deflection_method = args.deflection_method
  /\ b.time_to_impact_days = args.time_to_impact_days
  /\ RunDeflection(b)
  /\ runs' = 2
  /\ prev' = [args |-> args, net |-> net, result |-> result, locals |-> locals]
  /\ UNCHANGED pc
  /\ UNCHANGED others

CallZones(energy, crater, density) ==
  /\ pc = "idle"
  /\ op' = "collins_overpressure_zones"
  /\ args' = [energy_megatons |-> energy, crater_diameter_km |-> crater,
              projectile_density |-> density]
  /\ net' = "none"
  /\ locals' = ZoneRadii(RSci(energy[1], energy[2]), RSci(crater[1], crater[2]), RInt(density))
  /\ result' = collins_overpressure_zones(RSci(energy[1], energy[2]),
                                          RSci(crater[1], crater[2]), RInt(density))
  /\ pc' = "returned"
  /\ runs' = 1
  /\ prev' = NoValue
  /\ UNCHANGED others

CallCraterScaling(energy, density, angle) ==
  /\ pc = "idle"
  /\ op' = "collins_crater_scaling"
  /\ args' = [energy_joules |-> energy, projectile_density |-> density,
              target_density |-> 2500, angle |-> angle]
  /\ net' = "none"
  /\ locals' = NoValue
  /\ result' = collins_crater_scaling(RSci(energy[1], energy[2]), RInt(density), RInt(2500),
                                      angle, RQ(981, 100))
  /\ pc' = "returned"
  /\ runs' = 1
  /\ prev' = NoValue
  /\ UNCHANGED others

CallCasualties(overpressure_psi, population) ==
  /\ pc = "idle"
  /\ op' = "calculate_casualties_scientific"
  /\ args' = [overpressure_psi |-> overpressure_psi, population |-> population]
  /\ net' = "none"
  /\ locals' = NoValue
  /\ result' = calculate_casualties_scientific(overpressure_psi, Count(population))
  /\ pc' = "returned"
  /\ runs' = 1
  /\ prev' = NoValue
  /\ UNCHANGED others

CallComparison(megatons) ==
  /\ pc = "idle"
  /\ op' = "generate_comparison"
  /\ args' = [megatons |-> megatons]
  /\ net' = "none"
  /\ locals' = NoValue
  /\ result' = generate_comparison(RQ(megatons[1], megatons[2]))
  /\ pc' = "returned"
  /\ runs' = 1
  /\ prev' = NoValue
  /\ UNCHANGED others

\* the caller consumes the returned record and drops it
Discard ==
  /\ pc = "returned"
  /\ pc' = "idle"
  /\ op' = "none"
  /\ args' = NoValue
  /\ net' = "none"
  /\ result' = NoValue
  /\ locals' = NoValue
  /\ runs' = 0
  /\ prev' = NoValue
  /\ UNCHANGED others

Next ==
  \/ \E a \in ImpactArgs : \E response \in LookupOutcomes(a.lat, a.lon) :
       CallImpact(a, response)
  \/ \E response \in Responses \cup {"not_attempted"} : RepeatImpact(response)
  \/ \E response \in LookupOutcomes(ChelyabinskArgs.lat, ChelyabinskArgs.lon) :
       ValidateChelyabinsk(response)
  \/ \E response \in LookupOutcomes(TunguskaArgs.lat, TunguskaArgs.lon) :
       ValidateTunguska(response)
  \/ \E a \in DeflectionArgs : CallDeflection(a)
  \/ \E b \in DeflectionArgs : CompareDeflection(b)
  \/ \E energy \in ZoneEnergies, crater \in ZoneCraters, density \in ZoneDensities :
       CallZones(energy, crater, density)
  \/ \E energy \in CraterEnergies, density \in {1128, 2700, 8000}, angle \in {-45, 0, 15, 45, 90} :
       CallCraterScaling(energy, density, angle)
  \/ \E overpressure_psi \in Overpressures, population \in Populations :
       CallCasualties(overpressure_psi, population)
  \/ \E megatons \in ComparisonEnergies : CallComparison(megatons)
  \/ Discard

Spec == Init /\ [][Next]_vars

(***************************************************************************)
(* Calls that run at the same time.  Each thread runs one call of          *)
(* calculate_impact or calculate_deflection; a step of a thread is one     *)
(* group of statements of its call, and the steps of different threads     *)
(* interleave freely.  The code keeps every variable of a call in the      *)
(* frame of that call; the module has no variable of its own.              *)
(***************************************************************************)
\* a body in the open ocean and a larger one over central Paris
ConcurrentImpactArgs ==
  {[size_m |-> 100, speed_km_s |-> 2000, angle |-> 45, lat |-> 0, lon |-> 0,
    absolute_magnitude_h |-> None, custom_density_kg_m3 |-> None],
   [size_m |-> 1000, speed_km_s |-> 2000, angle |-> 45, lat |-> 488566, lon |-> 23522,
    absolute_magnitude_h |-> None, custom_density_kg_m3 |-> None]}

ConcurrentDeflectionArgs ==
  [asteroid_size_m : {100}, asteroid_mass_kg : {<<1, 9>>}, asteroid_velocity_km_s : {20},
   time_to_impact_days : {3650}, deflection_method : {"kinetic_impactor", "gravity_tractor"},
   spacecraft_mass_kg : {1000}, spacecraft_velocity_km_s : {10}]

\* a frame kept in one place for all calls: a call at the position of the
\* first thread finds the first thread's variables
FrameOfShared(frames, t) ==
  IF frames[1].pc = frames[t].pc THEN frames[1].locals ELSE frames[t].locals

\* the local variables a thread's call reads: those of its own frame
FrameOf(frames, t) == frames[t].locals

\* thread t moves to position p with the frame f
Step(t, p, f) ==
  /\ calls' = [calls EXCEPT ![t].pc = p, ![t].locals = f]
  /\ UNCHANGED <<caller, request>>

\* thread t enters calculate_impact(a) and computes density, mass and velocity
StartImpact(t, a) ==
  /\ calls[t].pc = "idle"
  /\ calls' = [calls EXCEPT ![t] =
                 [pc |-> "body", op |-> "calculate_impact", args |-> a, net |-> "none",
                  locals |-> FrameOfBody(a, ImpactDensity(a.size_m, a.absolute_magnitude_h,
                                                          a.custom_density_kg_m3)),
                  result |-> NoValue]]
  /\ UNCHANGED <<caller, request>>

StepEnergy(t) ==
  /\ calls[t].pc = "body"
  /\ Step(t, "energy", FrameWithEnergy(FrameOf(calls, t)))

StepCrater(t) ==
  /\ calls[t].pc = "energy"
  /\ Step(t, "crater", FrameWithCrater(calls[t].args, FrameOf(calls, t)))

\* the population lookup, whose remote request, if made, does response
StepPopulation(t, response) ==
  /\ calls[t].pc = "crater"
  /\ response \in LookupOutcomes(calls[t].args.lat, calls[t].args.lon)
  /\ calls' = [calls EXCEPT ![t].pc = "population", ![t].net = response,
                            ![t].locals = FrameWithPopulation(calls[t].args, response,
                                                              FrameOf(calls, t))]
  /\ UNCHANGED <<caller, request>>

StepCasualties(t) ==
  /\ calls[t].pc = "population"
  /\ Step(t, "casualties", FrameOfCasualties(FrameOf(calls, t)))

ReturnFromImpact(t) ==
  /\ calls[t].pc = "casualties"
  /\ calls' = [calls EXCEPT ![t].pc = "returned",
                            ![t].result = calculate_impact(FrameOf(calls, t))]
  /\ UNCHANGED <<caller, request>>

\* thread t enters calculate_deflection(a)
StartDeflection(t, a) ==
  /\ calls[t].pc = "idle"
  /\ calls' = [calls EXCEPT ![t] =
                 [pc |-> "dispatch", op |-> "calculate_deflection", args |-> a,
                  net |-> "none", locals |-> NoValue, result |-> NoValue]]
  /\ UNCHANGED <<caller, request>>

\* the method's model runs on the arguments of the call and returns
ReturnFromDeflection(t) ==
  /\ calls[t].pc = "dispatch"
  /\ calls' = [calls EXCEPT ![t].pc = "returned",
                            ![t].result = Returned(DeflectionOf(calls[t].args))]
  /\ UNCHANGED <<caller, request>>

\* the thread's caller takes the record
DiscardCall(t) ==
  /\ calls[t].pc = "returned"
  /\ calls' = [calls EXCEPT ![t] = IdleCall]
  /\ UNCHANGED <<caller, request>>

ConcurrentNext ==
  \/ \E t \in Threads, a \in ConcurrentImpactArgs : StartImpact(t, a)
  \/ \E t \in Threads : StepEnergy(t)
  \/ \E t \in Threads : StepCrater(t)
  \/ \E t \in Threads, response \in Responses \cup {"not_attempted"} :
       StepPopulation(t, response)
  \/ \E t \in Threads : StepCasualties(t)
  \/ \E t \in Threads : ReturnFromImpact(t)
  \/ \E t \in Threads, a \in ConcurrentDeflectionArgs : StartDeflection(t, a)
  \/ \E t \in Threads : ReturnFromDeflection(t)
  \/ \E t \in Threads : DiscardCall(t)

ConcurrentSpec == Init /\ [][ConcurrentNext]_vars

(***************************************************************************)
(* calculate_deflection on masses that are zero, negative or infinite.     *)
(* mass_kg is a float of the query string and is not validated, so every   *)
(* double reaches the engine.                                              *)
(***************************************************************************)
\* <<m, e>> stands for m * 10^e; 1e400 is read as infinity
DegenerateMasses ==
  {<<0, 0>>, <<-500, 0>>, <<-1000, 0>>, <<-1, 9>>, <<1, 9>>, <<1, 400>>, <<-1, 400>>}

DegenerateArgs ==
  [asteroid_size_m : {100}, asteroid_mass_kg : DegenerateMasses, asteroid_velocity_km_s : {20},
   time_to_impact_days : {30, 365, 3650}, deflection_method : Methods,
   spacecraft_mass_kg : {500, 1000}, spacecraft_velocity_km_s : {10}]

DegenerateNext ==
  \/ \E a \in DegenerateArgs : CallDeflection(a)
  \/ Discard

DegenerateSpec == Init /\ [][DegenerateNext]_vars

(***************************************************************************)
(* The HTTP layer of main.py in front of calculate_impact.  Lengths are in *)
(* metres, speeds in hundredths of a km/s, angles in degrees, latitudes    *)
(* and longitudes in ten-thousandths of a degree.                          *)
(***************************************************************************)
\* <<lat, lon>> of a request body: in range, a longitude beyond 180 degrees on
\* either side, a latitude and a longitude out of range
RequestSites ==
  {<<0, 0>>, <<0, 3600000>>, <<0, -3600000>>, <<488566, -3576478>>, <<410000, 2860000>>,
   <<910000, 0>>, <<0, 3610000>>}

ImpactRequests ==
  [size_m : {9, 10, 10000, 10001}, speed_km_s : {999, 1000, 7000, 7001},
   angle : {14, 15, 90, 91}, site : RequestSites, absolute_magnitude_h : {None, 220}]

SimulateRealImpactRequests == [asteroid_id : {"3542519"}, site : RequestSites, angle : {14, 45, 91}]

\* what the NASA lookup of an asteroid returns: estimated diameters in tenths
\* of a metre, the velocity of the first close approach (None when the list
\* of close approaches is empty) and H in tenths of a magnitude
Asteroids ==
  {[estimated_diameter_min |-> 50, estimated_diameter_max |-> 110,
    kilometers_per_second |-> 550, absolute_magnitude_h |-> 260],
   [estimated_diameter_min |-> 1000, estimated_diameter_max |-> 2000,
    kilometers_per_second |-> 2000, absolute_magnitude_h |-> 220],
   [estimated_diameter_min |-> 200000, estimated_diameter_max |-> 400000,
    kilometers_per_second |-> 7500, absolute_magnitude_h |-> 100],
   [estimated_diameter_min |-> 1000, estimated_diameter_max |-> 2000,
    kilometers_per_second |-> None, absolute_magnitude_h |-> 220]}

\* the ways the NASA lookup ends without an asteroid, and the status answered
NasaFailures ==
  [no_key |-> 503, not_found |-> 404, rate_limited |-> 429, timeout |-> 503,
   request_error |-> 503]

\* what the NASA lookup of a request can do
NasaOutcomes ==
  {[failure |-> f] : f \in DOMAIN NasaFailures} \cup {[asteroid |-> a] : a \in Asteroids}

\* Field(ge=10, le=10000), Field(ge=10, le=70), Field(ge=15, le=90)
ValidImpactRequest(r) ==
  /\ r.size_m >= 10 /\ r.size_m <= 10000
  /\ r.speed_km_s >= 1000 /\ r.speed_km_s <= 7000
  /\ r.site[1] >= -900000 /\ r.site[1] <= 900000
  /\ r.site[2] >= -3600000 /\ r.site[2] <= 3600000
  /\ r.angle >= 15 /\ r.angle <= 90

ValidSimulateRealImpactRequest(r) ==
  /\ r.site[1] >= -900000 /\ r.site[1] <= 900000
  /\ r.site[2] >= -3600000 /\ r.site[2] <= 3600000
  /\ r.angle >= 15 /\ r.angle <= 90

\* the wrap-around both endpoints apply to the longitude
NormalizeLon(lon) ==
  IF lon > 1800000 THEN lon - 3600000
  ELSE IF lon < -1800000 THEN lon + 3600000
  ELSE lon

\* the request ends with an error status and calculate_impact is not called
Answer(endpoint, r, nasa, status) ==
  /\ request' = [endpoint |-> endpoint, body |-> r, nasa |-> nasa, status |-> status]
  /\ UNCHANGED <<caller, calls>>

\* the endpoint calls calculate_impact(a), whose frame is f, and answers
Serve(endpoint, r, nasa, a, response, f) ==
  /\ ReturnImpact(a, response, f)
  /\ pc' = "returned"
  /\ runs' = 1
  /\ prev' = NoValue
  /\ request' = [endpoint |-> endpoint, body |-> r, nasa |-> nasa,
                 status |-> IF "raised" \in DOMAIN f THEN 500 ELSE 200]
  /\ UNCHANGED calls

CallFromEndpoint(endpoint, r, nasa, a, response) ==
  /\ response \in LookupOutcomes(a.lat, a.lon)
  /\ Serve(endpoint, r, nasa, a, response, ImpactFrame(a, response))

\* the arguments /api/calculate-impact passes
ImpactArgsOf(r) ==
  [size_m |-> r.size_m, speed_km_s |-> r.speed_km_s, angle |-> r.angle,
   lat |-> r.site[1], lon |-> NormalizeLon(r.site[2]),
   absolute_magnitude_h |-> r.absolute_magnitude_h, custom_density_kg_m3 |-> None]

\* POST /api/calculate-impact
calculate_impact_endpoint(r, response) ==
  /\ pc = "idle"
  /\ request = NoValue
  /\ IF ValidImpactRequest(r)
       THEN CallFromEndpoint("/api/calculate-impact", r, NoValue, ImpactArgsOf(r), response)
       ELSE /\ response = "not_attempted"
            /\ Answer("/api/calculate-impact", r, NoValue, 422)

\* the arguments /api/simulate-real-impact passes: size_m is int(avg_diameter)
SimulateArgsOf(r, asteroid) ==
  [size_m |-> (asteroid.estimated_diameter_min + asteroid.estimated_diameter_max) \div 20,
   speed_km_s |-> asteroid.kilometers_per_second, angle |-> r.angle,
   lat |-> r.site[1], lon |-> NormalizeLon(r.site[2]),
   absolute_magnitude_h |-> asteroid.absolute_magnitude_h, custom_density_kg_m3 |-> None]

\* POST /api/simulate-real-impact, nasa being what the NASA lookup did
simulate_real_impact(r, nasa, response) ==
  /\ pc = "idle"
  /\ request = NoValue
  /\ IF ~ValidSimulateRealImpactRequest(r)
       THEN /\ nasa = [failure |-> "no_key"]
            /\ response = "not_attempted"
            /\ Answer("/api/simulate-real-impact", r, NoValue, 422)
     ELSE IF "failure" \in DOMAIN nasa
       THEN /\ response = "not_attempted"
            /\ Answer("/api/simulate-real-impact", r, nasa, NasaFailures[nasa.failure])
     ELSE IF nasa.asteroid.kilometers_per_second = None
       THEN /\ response = "not_attempted"
            /\ Answer("/api/simulate-real-impact", r, nasa, 400)
     ELSE CallFromEndpoint("/api/simulate-real-impact", r, nasa,
                           SimulateArgsOf(r, nasa.asteroid), response)

\* the response is sent
Respond ==
  /\ request # NoValue
  /\ request' = NoValue
  /\ pc' = "idle"
  /\ op' = "none"
  /\ args' = NoValue
  /\ net' = "none"
  /\ result' = NoValue
  /\ locals' = NoValue
  /\ runs' = 0
  /\ prev' = NoValue
  /\ UNCHANGED calls

HttpNext ==
  \/ \E r \in ImpactRequests, response \in Responses \cup {"not_attempted"} :
       calculate_impact_endpoint(r, response)
  \/ \E r \in SimulateRealImpactRequests, nasa \in NasaOutcomes,
        response \in Responses \cup {"not_attempted"} :
       simulate_real_impact(r, nasa, response)
  \/ Respond

HttpSpec == Init /\ [][HttpNext]_vars

(***************************************************************************)
(* calculate_asteroid_density called on its own                            *)
(***************************************************************************)
\* H in tenths of a magnitude: every tenth from 17.0 to 23.0 and some beyond
DensityMagnitudes == 170..230 \cup {-100, -1, 0, 1, 100, 260, 330}

DensityDiameters == {1, 10, 99, 100, 101, 10000}

CallDensity(absolute_magnitude_h, diameter_m) ==
  /\ pc = "idle"
  /\ op' = "calculate_asteroid_density"
  /\ args' = [absolute_magnitude_h |-> absolute_magnitude_h, diameter_m |-> diameter_m]
  /\ net' = "none"
  /\ locals' = NoValue
  /\ result' = calculate_asteroid_density(absolute_magnitude_h, diameter_m)
  /\ pc' = "returned"
  /\ runs' = 1
  /\ prev' = NoValue
  /\ UNCHANGED others

DensityNext ==
  \/ \E absolute_magnitude_h \in DensityMagnitudes, diameter_m \in DensityDiameters :
       CallDensity(absolute_magnitude_h, diameter_m)
  \/ Discard

DensitySpec == Init /\ [][DensityNext]_vars

(***************************************************************************)
(* estimate_population_from_coordinates called on its own                  *)
(***************************************************************************)
\* the edges of the latitude bands (20, 60 degrees) and of the continental
\* boxes, each with its neighbour one unit away
EstimateLatitudes ==
  {-900000, -600001, -600000, -350001, -350000, -200000, -199999, 0, 199999, 200000,
   249999, 250000, 299999, 300000, 300001, 600000, 600001, 700000, 700001, 900000}

EstimateLongitudes ==
  {-1800000, -1300001, -1300000, -600000, -599999, -200001, -200000, -100001, -100000,
   500000, 500001, 1800000}

\* the grid, the centre of every city of major_cities, and sites on the fringe
\* of Dubai, Beijing, Sydney and Singapore
EstimateSites ==
  (EstimateLatitudes \X EstimateLongitudes)
  \cup {<<major_cities[i][1], major_cities[i][2]>> : i \in 1..Len(major_cities)}
  \cup {<<256548, 552708>>, <<256000, 552708>>, <<254000, 552708>>,
        <<408000, 1164074>>, <<-344500, 1512093>>, <<16800, 1038198>>}

\* the function returns for the max_density its loop found
ReturnEstimate(latitude, longitude, max_density) ==
  /\ op' = "estimate_population_from_coordinates"
  /\ args' = [latitude |-> latitude, longitude |-> longitude]
  /\ net' = "none"
  /\ locals' = [max_density |-> max_density]
  /\ result' = EstimateFrom(latitude, longitude, max_density)
  /\ pc' = "returned"
  /\ runs' = 1
  /\ prev' = NoValue
  /\ UNCHANGED others

CallEstimate(latitude, longitude) ==
  /\ pc = "idle"
  /\ ReturnEstimate(latitude, longitude, CityLoop(latitude, longitude, 1, Zero))

EstimateNext ==
  \/ \E site \in EstimateSites : CallEstimate(site[1], site[2])
  \/ Discard

EstimateSpec == Init /\ [][EstimateNext]_vars

(***************************************************************************)
(* Properties                                                              *)
(***************************************************************************)
MethodFields ==
  {"method", "velocity_change_km_s", "deflection_distance_km", "effectiveness", "status"}

\* C1: calculate_deflection dispatches on an exact match of deflection_method.
\* For every method string other than the three method names, wrong-case and
\* empty strings included, the result carries an "error" field and none of
\* the fields of a method's output; for the three names the result is not the
\* error result.
C1_UnknownMethodIsError ==
  op = "calculate_deflection" =>
    IF args.deflection_method \in Methods
      THEN "error" \notin DOMAIN result
      ELSE /\ "error" \in DOMAIN result
           /\ DOMAIN result \cap MethodFields = {}

\* a wrong-case method name has been answered with the error result
C1_WrongCaseRejected ==
  /\ op = "calculate_deflection"
  /\ args.deflection_method = "KINETIC_IMPACTOR"
  /\ result = [error |-> "Invalid deflection method"]

\* C2: for all valid impact parameters the four blast radii computed by
\* collins_overpressure_zones satisfy
\* crater_radius <= total_destruction <= severe_damage <= moderate_damage.
C2_BlastRadiiOrdered ==
  (/\ op = "calculate_impact"
   /\ args.size_m >= 10 /\ args.size_m <= 10000
   /\ args.speed_km_s >= 1000 /\ args.speed_km_s <= 7000
   /\ args.angle >= 15 /\ args.angle <= 90)
  => /\ RLe(locals.radii.crater_radius_km, locals.radii.total_destruction_km)
     /\ RLe(locals.radii.total_destruction_km, locals.radii.severe_damage_km)
     /\ RLe(locals.radii.severe_damage_km, locals.radii.moderate_damage_km)

C4_ZonesLargestFirst ==
  op = "collins_overpressure_zones" =>
    \A i \in 1..(Len(result) - 1) : result[i].radius_km >= result[i + 1].radius_km

\* the zone list of the call that has returned
ReturnedZones ==
  IF op = "collins_overpressure_zones" THEN result
  ELSE IF op = "calculate_impact" THEN result.damage_zones
  ELSE << >>

\* the energy, in megatons, the zone list was computed from
ZonesEnergy ==
  IF op = "collins_overpressure_zones"
    THEN RSci(args.energy_megatons[1], args.energy_megatons[2])
    ELSE locals.energy_megatons

\* C5: every zone in the list returned by collins_overpressure_zones has
\* radius_km > 0 after rounding to 2 decimals, each zone type appears at most
\* once, and a seismic_damage zone is present only when energy_megatons > 1.0
\* strictly.
C5_ZonesPositiveAndUnique ==
  op \in {"collins_overpressure_zones", "calculate_impact"} =>
    /\ \A i \in 1..Len(ReturnedZones) : ReturnedZones[i].radius_km > 0
    /\ \A i, j \in 1..Len(ReturnedZones) :
         ReturnedZones[i].type = ReturnedZones[j].type => i = j
    /\ (\E i \in 1..Len(ReturnedZones) : ReturnedZones[i].type = "seismic_damage")
         => RLt(RInt(1), ZonesEnergy)

\* at exactly 1.0 megatons with a crater of 1 m the list has neither a seismic
\* zone nor the crater zone, whose radius rounds to 0, and keeps the others
C5_ZeroRadiusDropped ==
  /\ op = "collins_overpressure_zones"
  /\ args.energy_megatons = <<1, 0>>
  /\ args.crater_diameter_km = <<1, -3>>
  /\ Len(result) = 4
  /\ \A i \in 1..Len(result) : result[i].type \notin {"seismic_damage", "crater"}

\* the crater the call that has returned computed
ReturnedCrater ==
  IF op = "collins_crater_scaling" THEN result
  ELSE [crater_diameter_km |-> locals.crater_diameter_km,
        crater_depth_km |-> locals.crater_depth_km]

\* C6: collins_crater_scaling returns crater_depth_km = 0.2 * crater_diameter_km
\* when crater_diameter_km > 4 and 0.3 * crater_diameter_km otherwise; a crater
\* of exactly 4 km has ratio 0.3.
C6_CraterDepthRatio ==
  (/\ op \in {"collins_crater_scaling", "calculate_impact"}
   /\ ReturnedCrater.crater_diameter_km.s = 1)
  => RDiv(ReturnedCrater.crater_depth_km, ReturnedCrater.crater_diameter_km)
       = IF RLt(RInt(4), ReturnedCrater.crater_diameter_km) THEN RQ(2, 10) ELSE RQ(3, 10)

\* a crater of exactly 4 km has been given the depth of a simple crater
C6_FourKmIsSimple ==
  /\ op = "collins_crater_scaling"
  /\ result.crater_diameter_km = RInt(4)
  /\ result.crater_depth_km = RMul(RInt(4), RQ(3, 10))

\* C7: the Chelyabinsk fixture run through calculate_impact yields an energy
\* within 250 kt of 500 kt, so validate_against_chelyabinsk reports
\* within_uncertainty = true.
C7_ChelyabinskWithinUncertainty ==
  op = "validate_against_chelyabinsk" =>
    /\ RLt(RAbs(RSub(RMul(locals.energy_megatons, RInt(1000)), RInt(500))), RInt(250))
    /\ result.within_uncertainty = TRUE

\* C8: the Tunguska fixture run through calculate_impact yields an energy
\* within 5 Mt of 10 Mt, so validate_against_tunguska reports
\* within_uncertainty = true.
C8_TunguskaWithinUncertainty ==
  op = "validate_against_tunguska" =>
    /\ RLt(RAbs(RSub(locals.energy_megatons, RInt(10))), RInt(5))
    /\ result.within_uncertainty = TRUE

\* two calculate_deflection calls for one method and one time to impact have
\* both returned a method's output
TwoDeflections ==
  /\ op = "calculate_deflection"
  /\ runs = 2
  /\ "effectiveness" \in DOMAIN prev.result
  /\ "effectiveness" \in DOMAIN result

\* C9: for each deflection method and every fixed time_to_impact_days,
\* effectiveness is non-decreasing in the velocity change: when the first
\* call's velocity change is <= the second's, so are its effectiveness and its
\* success_probability.
C9_EffectivenessMonotone ==
  (/\ TwoDeflections
   /\ RLe(prev.locals.velocity_change_km_s, locals.velocity_change_km_s))
  => /\ prev.result.effectiveness <= result.effectiveness
     /\ prev.result.success_probability <= result.success_probability

\* a larger velocity change of the kinetic impactor has raised the
\* effectiveness from 50 to 80
C9_LargerChangeRatedHigher ==
  /\ TwoDeflections
  /\ args.deflection_method = "kinetic_impactor"
  /\ RLt(prev.locals.velocity_change_km_s, locals.velocity_change_km_s)
  /\ prev.result.effectiveness = 50
  /\ result.effectiveness = 80

\* C10: calculate_impact and calculate_deflection are deterministic functions
\* of their arguments: two calls with equal arguments return equal result
\* records, whatever the remote population lookup did in each call.
C10_EqualArgumentsEqualResults ==
  (/\ op \in {"calculate_impact", "calculate_deflection"}
   /\ runs >= 2
   /\ prev.args = args)
  => result = prev.result

\* the same impact has been computed twice, the lookup timing out in one call
\* and returning a task id in the other
C10_LookupOutcomesDiffer ==
  /\ op = "calculate_impact"
  /\ runs >= 2
  /\ prev.args = args
  /\ prev.net = "taskid"
  /\ net = "timeout"
  /\ result.deaths_estimated.n > 0
  /\ result = prev.result

\* C11: no call of calculate_impact issues the remote WorldPop request or waits
\* for it, whatever the estimated density of the impact location
C11_NoRemoteRequest ==
  op = "calculate_impact" => net = "not_attempted"

\* the record the call of thread t returns when it runs alone
AloneResult(c) ==
  IF c.op = "calculate_impact" THEN calculate_impact(ImpactFrame(c.args, c.net))
  ELSE Returned(DeflectionOf(c.args))

\* C12: calls of calculate_impact and calculate_deflection that run at the same
\* time in any interleaving do not interfere: whenever a call has returned, its
\* record is the one the same call returns when it runs alone
C12_ConcurrentCallsIndependent ==
  \A t \in Threads : calls[t].pc = "returned" => calls[t].result = AloneResult(calls[t])

\* one call has returned while another, with other arguments, was inside
\* calculate_impact
C12_ReturnedBesideRunningCall ==
  \E t, u \in Threads :
    /\ calls[t].pc = "returned"
    /\ calls[t].op = "calculate_impact"
    /\ calls[u].pc \in {"body", "energy", "crater", "population", "casualties"}
    /\ calls[u].args # calls[t].args

ImpactFields ==
  {"energy_megatons", "crater_diameter_km", "crater_depth_km", "damage_zones",
   "deaths_estimated", "injuries_estimated", "comparison", "scientific_metadata"}

\* C13: for valid parameters (diameter 10..10000 m, speed 10..70 km/s, angle
\* 15..90, any location, H absent or a number) calculate_impact returns the
\* complete record and raises nothing, whatever the remote lookup did
C13_ImpactAlwaysReturnsRecord ==
  (/\ op = "calculate_impact"
   /\ args.size_m \in 10..10000
   /\ args.speed_km_s \in 1000..7000
   /\ args.angle \in 15..90)
  => /\ pc = "returned"
     /\ "raised" \notin DOMAIN result
     /\ DOMAIN result = ImpactFields

\* a call whose remote request raised an exception other than a timeout has
\* returned the complete record
C13_ReturnedAfterRequestException ==
  /\ op = "calculate_impact"
  /\ net = "exception"
  /\ DOMAIN result = ImpactFields
  /\ result.deaths_estimated.n > 0

\* C14: a call of calculate_deflection with a supported method ends in an error
\* or in a record whose velocity change and deflection distance are finite; it
\* never returns NaN or infinity, whatever the asteroid mass (zero, negative,
\* cancelling the spacecraft mass, infinite)
C14_NoNonFiniteField ==
  (op = "calculate_deflection" /\ args.deflection_method \in Methods)
  => \/ "raised" \in DOMAIN result
     \/ /\ IsFinite(result.velocity_change_km_s)
        /\ IsFinite(result.deflection_distance_km)

\* C15: on every path by which main.py calls calculate_impact (the endpoints
\* /api/calculate-impact and /api/simulate-real-impact) the arguments are in
\* range: 10 <= size_m <= 10000, 10 <= speed_km_s <= 70, 15 <= angle <= 90,
\* -90 <= lat <= 90 and, after the wrap-around, -180 <= lon <= 180
C15_CoreArgumentsInRange ==
  op = "calculate_impact"
  => /\ args.size_m >= 10 /\ args.size_m <= 10000
     /\ args.speed_km_s >= 1000 /\ args.speed_km_s <= 7000
     /\ args.angle >= 15 /\ args.angle <= 90
     /\ args.lat >= -900000 /\ args.lat <= 900000
     /\ args.lon >= -1800000 /\ args.lon <= 1800000

\* the class of the H bands: H in tenths of a magnitude
BandOf(h) ==
  IF h > 220 THEN [density |-> 1410, asteroid_type |-> "C-type", confidence |-> 8]
  ELSE IF h > 180 THEN [density |-> 2700, asteroid_type |-> "S-type", confidence |-> 7]
  ELSE [density |-> 2700, asteroid_type |-> "S-type", confidence |-> 6]

\* C16: calculate_asteroid_density returns for every H exactly one of three
\* classes: C-type, 1410, confidence 0.8 for H > 22; S-type, 2700, confidence
\* 0.7 for 18 < H <= 22; S-type, 2700, confidence 0.6 for H <= 18; the density
\* is the base density of the class, times 0.8 below 100 m
C16_DensityBands ==
  op = "calculate_asteroid_density"
  => /\ result.asteroid_type = BandOf(args.absolute_magnitude_h).asteroid_type
     /\ result.confidence = BandOf(args.absolute_magnitude_h).confidence
     /\ result.density =
          IF args.diameter_m < 100
            THEN RMul(RInt(BandOf(args.absolute_magnitude_h).density), RQ(8, 10))
            ELSE RInt(BandOf(args.absolute_magnitude_h).density)

\* H = 22 exactly is S-type with confidence 0.7
C16_TwentyTwoIsSType ==
  /\ op = "calculate_asteroid_density"
  /\ args.absolute_magnitude_h = 220
  /\ result.asteroid_type = "S-type"
  /\ result.confidence = 7

\* C17: calculate_impact takes the density from the override when one is
\* supplied (class custom, confidence 1.0), otherwise from the H bands when H
\* is supplied, H = 0 included, and uses the assumed 2700 kg/m3 with confidence
\* 0.5 only when neither is supplied
C17_DensitySourceOrder ==
  op = "calculate_impact"
  => IF args.custom_density_kg_m3 # None
       THEN /\ locals.asteroid_type = "Custom"
            /\ locals.confidence = 10
            /\ locals.density_kg_m3 = RInt(args.custom_density_kg_m3)
     ELSE IF args.absolute_magnitude_h # None
       THEN /\ locals.asteroid_type = BandOf(args.absolute_magnitude_h).asteroid_type
            /\ locals.confidence = BandOf(args.absolute_magnitude_h).confidence
     ELSE /\ locals.asteroid_type = "S-type (assumed)"
          /\ locals.confidence = 5
          /\ locals.density_kg_m3 = RInt(2700)

\* C18: with no density override, calculate_impact uses 0.8 times the class
\* density below 100 m, whether H is supplied (0.8 * 1410 or 0.8 * 2700) or
\* absent (0.8 * 2700), and the class density from 100 m on
C18_PorosityBelow100m ==
  (op = "calculate_impact" /\ args.custom_density_kg_m3 = None)
  => locals.density_kg_m3 =
       IF args.size_m < 100
         THEN RMul(RInt(IF args.absolute_magnitude_h # None /\ args.absolute_magnitude_h > 220
                          THEN 1410 ELSE 2700),
                   RQ(8, 10))
         ELSE RInt(IF args.absolute_magnitude_h # None /\ args.absolute_magnitude_h > 220
                     THEN 1410 ELSE 2700)

\* speed_km_s * 1000, speed_km_s being in hundredths of a km/s
EntryVelocity == RMul(RQ(args.speed_km_s, 100), RInt(1000))

\* C19: the surface velocity calculate_impact uses for the energy is the entry
\* velocity times 0.70 below 50 m, 0.85 from 50 m to below 200 m and 0.95 from
\* 200 m on, whatever the other arguments
C19_RetentionByDiameter ==
  op = "calculate_impact"
  => locals.surface_velocity_m_s =
       RMul(EntryVelocity,
            IF args.size_m < 50 THEN RQ(70, 100)
            ELSE IF args.size_m < 200 THEN RQ(85, 100)
            ELSE RQ(95, 100))

\* a 50 m body has retained 85% of its entry velocity
C19_FiftyMetresRetains85 ==
  /\ op = "calculate_impact"
  /\ args.size_m = 50
  /\ locals.surface_velocity_m_s = RMul(EntryVelocity, RQ(85, 100))
  /\ locals.surface_velocity_m_s # RMul(EntryVelocity, RQ(70, 100))

\* C20: for valid parameters that can come through the HTTP layer (no density
\* override) the returned energy_megatons, rounded to 3 decimals, and
\* crater_diameter_km, rounded to 2 decimals, are both above zero
C20_EnergyAndCraterPositive ==
  (/\ op = "calculate_impact"
   /\ args.custom_density_kg_m3 = None
   /\ args.size_m \in 10..10000
   /\ args.speed_km_s \in 1000..7000
   /\ args.angle \in 15..90)
  => /\ RLt(Zero, result.energy_megatons)
     /\ result.crater_diameter_km > 0

\* the smallest, slowest, lightest and shallowest valid impact returns
\* 0.003 megatons and a crater of 0.29 km
C20_SmallestImpact ==
  /\ op = "calculate_impact"
  /\ args.size_m = 10
  /\ args.speed_km_s = 1000
  /\ args.angle = 15
  /\ args.absolute_magnitude_h = 260
  /\ result.energy_megatons = RQ(3, 1000)
  /\ result.crater_diameter_km = 29

\* C21: get_population_density_worldpop returns exactly
\* estimate_population_from_coordinates(latitude, longitude) for every outcome of
\* the remote lookup (task id, error body, non-200 status, timeout, any other
\* exception), and the lookup is attempted only when that estimate is > 50; the
\* remote response never changes the returned value.
C21_LookupReturnsEstimate ==
  (op = "calculate_impact" /\ "raised" \notin DOMAIN locals)
  => /\ locals.population_density = EstimateAt[<<args.lat, args.lon>>]
     /\ result.scientific_metadata.population_density_used = EstimateAt[<<args.lat, args.lon>>]
     /\ net \in Responses <=> RLt(RInt(50), EstimateAt[<<args.lat, args.lon>>])
     /\ net \notin Responses <=> net = "not_attempted"

\* the lookup for central Paris was accepted with a task id and the call still
\* used the estimate of 20000 people per km2
C21_TaskIdIgnored ==
  /\ op = "calculate_impact"
  /\ args.lat = 488566
  /\ net = "taskid"
  /\ RLt(RInt(19999), locals.population_density)
  /\ locals.population_density = estimate_population_from_coordinates(488566, 23522)

\* the latitude/longitude band values, in tenths
BandValues == {1, 2, 150, 180, 200, 240, 300, 400}

\* C22: estimate_population_from_coordinates returns a density d with
\* 0.1 <= d <= 20000 for every latitude in [-90,90] and longitude in [-180,180];
\* a maximum city-influence density >= 50 is returned unchanged, one < 50 is
\* discarded for a band value that is one of 0.1, 0.2, 15, 18, 20, 24, 30, 40
\* and so below 50.
C22_EstimateRange ==
  op = "estimate_population_from_coordinates" =>
    /\ RLe(RQ(1, 10), result)
    /\ RLe(result, RInt(20000))
    /\ RLe(RInt(50), locals.max_density) => result = locals.max_density
    /\ RLt(locals.max_density, RInt(50)) =>
         /\ RoundTo(result, 10) \in BandValues
         /\ RLt(RAbs(RSub(result, RQ(RoundTo(result, 10), 10))), RQ(1, 1000))
         /\ RLt(result, RInt(50))

\* on the fringe of Dubai the city contributes a density between 0 and 50,
\* which is dropped for the rural temperate value 20
C22_FringeOfCityDiscarded ==
  /\ op = "estimate_population_from_coordinates"
  /\ RLt(Zero, locals.max_density)
  /\ RLt(locals.max_density, RInt(50))
  /\ RoundTo(result, 10) = 200

\* a calculate_deflection call of the given method has returned that method's
\* record
MethodReturned(method) ==
  /\ op = "calculate_deflection"
  /\ args.deflection_method = method
  /\ "effectiveness" \in DOMAIN result

\* the record rates the distance: effectiveness and success_probability
Rated(effectiveness, success_probability) ==
  /\ result.effectiveness = effectiveness
  /\ result.success_probability = success_probability

\* C23: the kinetic-impactor result is classified by strict comparisons of the
\* unrounded deflection distance D against R = 6371 km: D > 2R gives
\* effectiveness 100, R < D <= 2R gives 80, 0.5R < D <= R gives 50, D <= 0.5R
\* gives 20; success_probability = min(95, max(20, effectiveness + 10)) is 95,
\* 90, 60 or 30 respectively, and time_required_days is always 30.
C23_KineticBands ==
  MethodReturned("kinetic_impactor") =>
    /\ RLt(EarthRadii(2, 1), locals.deflection_distance_km) => Rated(100, 95)
    /\ (/\ RLt(EarthRadii(1, 1), locals.deflection_distance_km)
        /\ RLe(locals.deflection_distance_km, EarthRadii(2, 1))) => Rated(80, 90)
    /\ (/\ RLt(EarthRadii(5, 10), locals.deflection_distance_km)
        /\ RLe(locals.deflection_distance_km, EarthRadii(1, 1))) => Rated(50, 60)
    /\ RLe(locals.deflection_distance_km, EarthRadii(5, 10)) => Rated(20, 30)
    /\ result.success_probability = Min(95, Max(20, result.effectiveness + 10))
    /\ RoundTo(result.time_required_days, 1) = 30

\* a kinetic impactor has moved the asteroid by more than two Earth radii and
\* is rated 100 with a success probability capped at 95
C23_CompleteDeflectionCapped ==
  /\ MethodReturned("kinetic_impactor")
  /\ RLt(EarthRadii(2, 1), locals.deflection_distance_km)
  /\ Rated(100, 95)

\* C24: the gravity-tractor result is classified by strict comparisons of the
\* unrounded deflection distance D against R = 6371 km: D > 1.5R gives
\* effectiveness 90, R < D <= 1.5R gives 70, 0.3R < D <= R gives 40, D <= 0.3R
\* gives 15; success_probability = min(85, max(30, effectiveness + 5)) is 85,
\* 75, 45 or 30; time_required_days = max(365, time_to_impact_days - 100),
\* never below 365.
C24_GravityTractorBands ==
  MethodReturned("gravity_tractor") =>
    /\ RLt(EarthRadii(15, 10), locals.deflection_distance_km) => Rated(90, 85)
    /\ (/\ RLt(EarthRadii(1, 1), locals.deflection_distance_km)
        /\ RLe(locals.deflection_distance_km, EarthRadii(15, 10))) => Rated(70, 75)
    /\ (/\ RLt(EarthRadii(3, 10), locals.deflection_distance_km)
        /\ RLe(locals.deflection_distance_km, EarthRadii(1, 1))) => Rated(40, 45)
    /\ RLe(locals.deflection_distance_km, EarthRadii(3, 10)) => Rated(15, 30)
    /\ result.success_probability = Min(85, Max(30, result.effectiveness + 5))
    /\ RoundTo(result.time_required_days, 1) = Max(365, args.time_to_impact_days - 100)
    /\ RLe(RInt(365), result.time_required_days)

\* a tractor with 250000 days has moved the asteroid by between 1 and 1.5 Earth
\* radii: rated 70, success probability 75, lead time 249900 days
C24_GoodDeflection ==
  /\ MethodReturned("gravity_tractor")
  /\ args.time_to_impact_days = 250000
  /\ RLt(EarthRadii(1, 1), locals.deflection_distance_km)
  /\ Rated(70, 75)
  /\ RoundTo(result.time_required_days, 1) = 249900

Megatons == RQ(args.megatons[1], args.megatons[2])

C28_TunguskaRangeLabelled ==
  (op = "generate_comparison" /\ RLe(RInt(10), Megatons) /\ RLe(Megatons, RInt(20)))
  => result = "Tunguska event scale"

\* radius_km of the total_destruction zone of the returned record, in
\* hundredths of a km, 0 when the zone was dropped
DestructionRadius == ZoneRadius(result.damage_zones, "total_destruction")

\* int(pi * r^2 * population_density) for the returned radius and density
Affected ==
  PyInt(RMul(RMul(RPi, RPow(RQ(DestructionRadius, 100), 2, 1)),
             result.scientific_metadata.population_density_used))

\* a + b <= c for counts
SumWithin(a, b, c) ==
  IF a.n # Big /\ b.n # Big /\ c.n # Big THEN a.n + b.n <= c.n
  ELSE RLe(RAdd(a.r, b.r), c.r)

\* C27: calculate_impact evaluates the casualty curve at 20 psi on the
\* population of the total-destruction disc: affected = floor(pi * r^2 *
\* population_density) with r the total_destruction radius as it appears in
\* damage_zones (0 when that zone was dropped), deaths_estimated = floor(0.8 *
\* affected), injuries_estimated = floor(0.15 * affected); so deaths + injuries
\* <= affected and both are 0 when the zone is absent.
C27_CasualtiesOfDestructionDisc ==
  (op = "calculate_impact" /\ "raised" \notin DOMAIN result) =>
    /\ locals.affected_population = Affected
    /\ result.deaths_estimated = IntTimesRate(Affected, [num |-> 8, den |-> 10])
    /\ result.injuries_estimated = IntTimesRate(Affected, [num |-> 15, den |-> 100])
    /\ SumWithin(result.deaths_estimated, result.injuries_estimated, Affected)
    /\ DestructionRadius = 0 =>
         result.deaths_estimated = Count(0) /\ result.injuries_estimated = Count(0)

\* an impact near New York whose total-destruction disc holds a population
\* that fits the integers: 80% of it dies and 15% is injured
C27_DiscNearNewYork ==
  /\ op = "calculate_impact"
  /\ args.lat = 410000
  /\ DestructionRadius > 0
  /\ Affected.n > 100
  /\ Affected.n < 100000000
  /\ result.deaths_estimated.n = (Affected.n * 8) \div 10
  /\ result.injuries_estimated.n = (Affected.n * 15) \div 100

\* the rate num / den in units of 1 / 100000
PerHundredThousand(rate) == rate.num * (100000 \div rate.den)

\* C29: the fatality_rate of calculate_casualties_scientific is monotonically
\* non-decreasing in overpressure_psi across the whole table: for p1 <= p2 the
\* rate at p1 is <= the rate at p2, the 20 psi / 35 psi break point included.
C29_FatalityRateMonotone ==
  op = "calculate_casualties_scientific" =>
    \A p1 \in Overpressures :
      p1 <= args.overpressure_psi =>
        PerHundredThousand(calculate_casualties_scientific(p1, Count(0)).fatality_rate)
          <= PerHundredThousand(result.fatality_rate)

\* C30: for the gravity-tractor method with asteroid_mass_kg > 0 the whole
\* result depends only on time_to_impact_days: a call with the same
\* time_to_impact_days and another asteroid mass, size or velocity returns an
\* equal record.
C30_GravityTractorDependsOnTimeOnly ==
  (/\ op = "calculate_deflection"
   /\ args.deflection_method = "gravity_tractor"
   /\ args.asteroid_mass_kg[1] > 0)
  => \A mass \in {<<1, 3>>, <<1, 9>>, <<5, 12>>}, size \in {1, 100, 5000}, velocity \in {5, 20} :
       result = Returned(calculate_deflection(
                           RInt(size), Float(mass[1], mass[2]), RInt(velocity),
                           RInt(args.time_to_impact_days), "gravity_tractor",
                           RInt(args.spacecraft_mass_kg),
                           RInt(args.spacecraft_velocity_km_s)))

====
